---------------------------- MODULE Spec2Model ----------------------------
(***************************************************************************)
(* A model of the plagiarism detector: the lexer (Lexer.h, Lexer.cpp), the *)
(* recursive-descent parser                                                *)
(* (Parser.cpp), the AST with its canonical hash and clone (AST.h/AST.cpp),*)
(* the fingerprint collector and the Jaccard similarity (main.cpp), and    *)
(* main's document loop and pairwise loop.                                 *)
(*                                                                         *)
(* An AST node is the record [kind, text, kids]: kind is the ASTNodeKind   *)
(* tag, text the node's string member (op, name, value) as a sequence of   *)
(* string pieces (a type name is assembled from several tokens), kids the  *)
(* owned children in member order, with Null standing for a null           *)
(* unique_ptr.                                                             *)
(***************************************************************************)
EXTENDS Integers, Sequences, FiniteSets, TLC

VARIABLES
    \* --- main(): the corpus and the two loops ---
    code_documents,         \* the documents, each one its token sequence
    doc,                    \* index of the document the first loop is at
    pc,                     \* where main() is
    tokens,                 \* Parser::tokens of the parser of document doc
    current_pos,            \* Parser::current_pos
    declarations,           \* program_node->declarations built so far
    ast_root,               \* main's ast_root
    parse_errors,           \* the SyntaxErrors caught so far, by document
    document_fingerprints,  \* main's document_fingerprints
    i, j,                   \* the pairwise loop's indices
    comparisons,            \* the pairs compared so far, with their score
    \* --- canonical hashing of a tree and of a rewriting of it ---
    node,                   \* a tree
    mirror,                 \* the tree of the same code after edits
    edit,                   \* the edits that led from node to mirror
    nodeHashes, mirrorHashes, \* getCanonicalHash() of every subtree of each
    nodePrints, mirrorPrints, \* collectASTFingerprints of each
    \* --- calculateJaccardSimilarity ---
    set1, set2,             \* two fingerprint sets
    similarity,             \* the result of the call on (set1, set2)
    similaritySwapped,      \* the result of the call on (set2, set1)
    \* --- Lexer::tokenize ---
    source,                 \* Lexer::source, a sequence of characters
    lexer_pos,              \* Lexer::current_pos
    lexer_tokens,           \* tokenize's vector of tokens
    lexer_pc                \* where tokenize() is

mainVars == << code_documents, doc, pc, tokens, current_pos, declarations,
               ast_root, parse_errors, document_fingerprints, i, j,
               comparisons >>

hashVars == << node, mirror, edit, nodeHashes, mirrorHashes, nodePrints,
               mirrorPrints >>

jaccardVars == << set1, set2, similarity, similaritySwapped >>

lexerVars == << source, lexer_pos, lexer_tokens, lexer_pc >>

vars == << mainVars, hashVars, jaccardVars, lexerVars >>

-----------------------------------------------------------------------------
(* Hashing constants and helpers: AST.cpp, AST.h                           *)

\* Body applied to the value of e: e is evaluated once, before Body is.
With(e, Body(_)) == CHOOSE out \in {Body(x) : x \in {e}} : TRUE

AST_HASH_BASE_1 == 31
AST_HASH_BASE_2 == 37
AST_HASH_MODULUS == 1000000007

\* (a * b) % AST_HASH_MODULUS for 0 <= a < AST_HASH_MODULUS and a small factor
\* b >= 1, computed without a product above the modulus: with
\* AST_HASH_MODULUS = q * b + r,  a * b = b * (a % q) - r * (a \div q)
\* modulo AST_HASH_MODULUS.  The C++ computes the product in unsigned 64-bit
\* arithmetic, where it does not wrap for these operands (a < 2^30, b < 2^30).
MulMod(a, b) ==
    LET q == AST_HASH_MODULUS \div b
        r == AST_HASH_MODULUS % b
        t == b * (a % q) - r * (a \div q)
    IN  IF t < 0 THEN t + AST_HASH_MODULUS ELSE t

\* A combine_hashes without the reduction of the sum.
combine_hashes_unreduced(h1, h2) ==
    MulMod(h1 % AST_HASH_MODULUS, AST_HASH_BASE_1) + (h2 % AST_HASH_MODULUS)

\* A combine_hashes that a seed of 0 does not pass through.
combine_hashes_offset(h1, h2) ==
    (MulMod((h1 + 1) % AST_HASH_MODULUS, AST_HASH_BASE_1)
         + (h2 % AST_HASH_MODULUS)) % AST_HASH_MODULUS

combine_hashes(h1, h2) ==
    (MulMod(h1 % AST_HASH_MODULUS, AST_HASH_BASE_1) + (h2 % AST_HASH_MODULUS))
        % AST_HASH_MODULUS

\* The characters of the strings that can be a node's text.
Ascii ==
    "if" :> <<105, 102>> @@
    "else" :> <<101, 108, 115, 101>> @@
    "while" :> <<119, 104, 105, 108, 101>> @@
    "for" :> <<102, 111, 114>> @@
    "return" :> <<114, 101, 116, 117, 114, 110>> @@
    "int" :> <<105, 110, 116>> @@
    "void" :> <<118, 111, 105, 100>> @@
    "bool" :> <<98, 111, 111, 108>> @@
    "true" :> <<116, 114, 117, 101>> @@
    "false" :> <<102, 97, 108, 115, 101>> @@
    "nullptr" :> <<110, 117, 108, 108, 112, 116, 114>> @@
    "const" :> <<99, 111, 110, 115, 116>> @@
    "=" :> <<61>> @@
    "+=" :> <<43, 61>> @@
    "-=" :> <<45, 61>> @@
    "*=" :> <<42, 61>> @@
    "/=" :> <<47, 61>> @@
    "%=" :> <<37, 61>> @@
    "==" :> <<61, 61>> @@
    "!=" :> <<33, 61>> @@
    "<" :> <<60>> @@
    ">" :> <<62>> @@
    "<=" :> <<60, 61>> @@
    ">=" :> <<62, 61>> @@
    "&&" :> <<38, 38>> @@
    "||" :> <<124, 124>> @@
    "!" :> <<33>> @@
    "++" :> <<43, 43>> @@
    "--" :> <<45, 45>> @@
    "+" :> <<43>> @@
    "-" :> <<45>> @@
    "*" :> <<42>> @@
    "/" :> <<47>> @@
    "%" :> <<37>> @@
    "->" :> <<45, 62>> @@
    "::" :> <<58, 58>> @@
    "<<" :> <<60, 60>> @@
    ">>" :> <<62, 62>> @@
    "&" :> <<38>> @@
    "|" :> <<124>> @@
    "^" :> <<94>> @@
    " " :> <<32>> @@
    "IDENTIFIER" :> <<73, 68, 69, 78, 84, 73, 70, 73, 69, 82>> @@
    "NUMBER_LITERAL" :> <<78, 85, 77, 66, 69, 82, 95, 76, 73, 84, 69, 82, 65, 76>> @@
    "STRING_LITERAL" :> <<83, 84, 82, 73, 78, 71, 95, 76, 73, 84, 69, 82, 65, 76>> @@
    "CHAR_LITERAL" :> <<67, 72, 65, 82, 95, 76, 73, 84, 69, 82, 65, 76>> @@
    "x" :> <<120>> @@
    "y" :> <<121>> @@
    "1" :> <<49>> @@
    "2" :> <<50>> @@
    "s" :> <<115>> @@
    "c" :> <<99>>

\* The characters of a text given as its pieces.
RECURSIVE Chars(_)
Chars(pieces) ==
    IF pieces = <<>> THEN <<>> ELSE Ascii[Head(pieces)] \o Chars(Tail(pieces))

\* hash_string's loop from character k on, with accumulator h and power p_power.
RECURSIVE hash_string_from(_, _, _, _)
hash_string_from(s, k, h, p_power) ==
    IF k > Len(s) THEN h
    ELSE With(<< (h + MulMod(p_power, s[k])) % AST_HASH_MODULUS,
                 MulMod(p_power, AST_HASH_BASE_2) >>,
              LAMBDA next : hash_string_from(s, k + 1, next[1], next[2]))

hash_string(pieces) == hash_string_from(Chars(pieces), 1, 0, 1)

commutative_operators == {"+", "*", "==", "!=", "&&", "||", "&", "|", "^"}

relational_operators_for_canonicalization == {"<", ">", "<=", ">="}

-----------------------------------------------------------------------------
(* ASTNodeKind and the node classes: AST.h                                  *)

PROGRAM == 0
FUNCTION_DEFINITION == 1
VARIABLE_DECLARATION == 2
IF_STATEMENT == 3
WHILE_STATEMENT == 4
FOR_STATEMENT == 5
RETURN_STATEMENT == 6
EXPRESSION_STATEMENT == 7
BLOCK_STATEMENT == 8
BINARY_EXPRESSION == 9
UNARY_EXPRESSION == 10
FUNCTION_CALL == 11
IDENTIFIER == 12
NUMBER_LITERAL == 13
STRING_LITERAL == 14
CHAR_LITERAL == 15
PARAMETER == 16
TYPE == 17

\* A null ASTNodePtr.
Null == [kind |-> -1, text |-> <<>>, kids |-> <<>>]

\* The constructors, children in the order of the constructor's parameters.
TypeNode(name) == [kind |-> TYPE, text |-> name, kids |-> <<>>]
IdentifierNode(name) == [kind |-> IDENTIFIER, text |-> name, kids |-> <<>>]
NumberLiteralNode(value) == [kind |-> NUMBER_LITERAL, text |-> value, kids |-> <<>>]
StringLiteralNode(value) == [kind |-> STRING_LITERAL, text |-> value, kids |-> <<>>]
CharLiteralNode(value) == [kind |-> CHAR_LITERAL, text |-> value, kids |-> <<>>]
BinaryExpressionNode(l, r, o) ==
    [kind |-> BINARY_EXPRESSION, text |-> <<o>>, kids |-> <<l, r>>]
UnaryExpressionNode(operand, o) ==
    [kind |-> UNARY_EXPRESSION, text |-> <<o>>, kids |-> <<operand>>]
\* kids: the callee, then the arguments
FunctionCallNode(callee, arguments) ==
    [kind |-> FUNCTION_CALL, text |-> <<>>, kids |-> <<callee>> \o arguments]
ParameterNode(type, identifier) ==
    [kind |-> PARAMETER, text |-> <<>>, kids |-> <<type, identifier>>]
ExpressionStatementNode(expression) ==
    [kind |-> EXPRESSION_STATEMENT, text |-> <<>>, kids |-> <<expression>>]
BlockStatementNode(statements) ==
    [kind |-> BLOCK_STATEMENT, text |-> <<>>, kids |-> statements]
WhileStatementNode(condition, body) ==
    [kind |-> WHILE_STATEMENT, text |-> <<>>, kids |-> <<condition, body>>]
ForStatementNode(initializer, condition, increment, body) ==
    [kind |-> FOR_STATEMENT, text |-> <<>>,
     kids |-> <<initializer, condition, increment, body>>]
ReturnStatementNode(expression) ==
    [kind |-> RETURN_STATEMENT, text |-> <<>>, kids |-> <<expression>>]
VariableDeclarationNode(type, identifier, initializer) ==
    [kind |-> VARIABLE_DECLARATION, text |-> <<>>,
     kids |-> <<type, identifier, initializer>>]
IfStatementNode(condition, then_branch, else_branch) ==
    [kind |-> IF_STATEMENT, text |-> <<>>,
     kids |-> <<condition, then_branch, else_branch>>]
\* kids: return_type, identifier, body, then the parameters
FunctionDefinitionNode(return_type, identifier, body, parameters) ==
    [kind |-> FUNCTION_DEFINITION, text |-> <<>>,
     kids |-> <<return_type, identifier, body>> \o parameters]
\* A parse() that returns no tree for a document without declarations.
ProgramNodeOrNull(decls) ==
    IF decls = <<>> THEN Null
    ELSE [kind |-> PROGRAM, text |-> <<>>, kids |-> decls]

ProgramNode(decls) == [kind |-> PROGRAM, text |-> <<>>, kids |-> decls]

\* arguments of a FunctionCallNode, parameters of a FunctionDefinitionNode
arguments(n) == SubSeq(n.kids, 2, Len(n.kids))
parameters(n) == SubSeq(n.kids, 4, Len(n.kids))

\* The left fold  h = combine_hashes(h, k->getCanonicalHash())  over children,
\* given the hashes hs they returned.
RECURSIVE FoldHashes(_, _)
FoldHashes(h, hs) ==
    IF hs = <<>> THEN h
    ELSE With(combine_hashes(h, Head(hs)),
              LAMBDA folded : FoldHashes(folded, Tail(hs)))

\* A fold that takes an absent child for one with hash 0.
FoldAbsentAsZero(h, child, child_hash) == combine_hashes(h, child_hash)

\* "if (child) h = combine_hashes(h, child->getCanonicalHash())"
FoldIfPresent(h, child, child_hash) ==
    IF child = Null THEN h ELSE combine_hashes(h, child_hash)

\* A binary hash that folds the operands in source order whatever the operator:
\* what BinaryExpressionNode::getCanonicalHash would be without its sorting.
BinaryOrderedHash(op, left_hash, right_hash) ==
    combine_hashes(
        combine_hashes(combine_hashes(BINARY_EXPRESSION, hash_string(<<op>>)),
                       left_hash),
        right_hash)

\* A BinaryExpressionNode hash that sorts the children's hashes under every
\* operator.
BinarySortedHash(op, left_hash, right_hash) ==
    LET h1 == combine_hashes(BINARY_EXPRESSION, hash_string(<<op>>))
    IN  IF left_hash <= right_hash
        THEN combine_hashes(combine_hashes(h1, left_hash), right_hash)
        ELSE combine_hashes(combine_hashes(h1, right_hash), left_hash)

\* BinaryExpressionNode::getCanonicalHash, from the children's hashes.
BinaryCanonicalHash(op, left_hash, right_hash) ==
    LET h0 == BINARY_EXPRESSION
        isComm == op \in commutative_operators
        isRel == (~isComm) /\ op \in relational_operators_for_canonicalization
        children_should_be_sorted == isComm \/ isRel
        swap == isRel /\ left_hash > right_hash
        current_left_hash == IF swap THEN right_hash ELSE left_hash
        current_right_hash == IF swap THEN left_hash ELSE right_hash
        effective_op ==
            IF ~swap THEN op
            ELSE IF op = "<" THEN ">"
            ELSE IF op = ">" THEN "<"
            ELSE IF op = "<=" THEN ">="
            ELSE IF op = ">=" THEN "<="
            ELSE op
        h1 == combine_hashes(h0, hash_string(<<effective_op>>))
        lo == IF current_left_hash <= current_right_hash
              THEN current_left_hash ELSE current_right_hash
        hi == IF current_left_hash <= current_right_hash
              THEN current_right_hash ELSE current_left_hash
    IN  IF children_should_be_sorted
        THEN combine_hashes(combine_hashes(h1, lo), hi)
        ELSE combine_hashes(combine_hashes(h1, current_left_hash),
                            current_right_hash)

\* A leaf hash that folds the leaf's text in, as TypeNode's does.
LeafTextHash(n) == combine_hashes(n.kind, hash_string(n.text))

\* The four leaf classes' getCanonicalHash: the kind tag alone.
LeafCanonicalHash(n) == n.kind

\* getCanonicalHash() of each class, given the hashes hs that the calls on the
\* children returned (hs[k] for n.kids[k]).
CanonicalHashFrom(n, hs) ==
    CASE n.kind = TYPE -> combine_hashes(n.kind, hash_string(n.text))
      [] n.kind \in {IDENTIFIER, NUMBER_LITERAL, STRING_LITERAL, CHAR_LITERAL} ->
            LeafCanonicalHash(n)
      [] n.kind = BINARY_EXPRESSION ->
            BinaryCanonicalHash(n.text[1], hs[1], hs[2])
      [] n.kind = UNARY_EXPRESSION ->
            combine_hashes(combine_hashes(n.kind, hash_string(n.text)), hs[1])
      [] n.kind \in {FUNCTION_CALL, BLOCK_STATEMENT, PROGRAM} ->
            FoldHashes(n.kind, hs)
      [] n.kind \in {PARAMETER, WHILE_STATEMENT} ->
            combine_hashes(combine_hashes(n.kind, hs[1]), hs[2])
      [] n.kind = EXPRESSION_STATEMENT -> combine_hashes(n.kind, hs[1])
      [] n.kind = FOR_STATEMENT ->
            combine_hashes(
                FoldIfPresent(
                    FoldIfPresent(FoldIfPresent(n.kind, n.kids[1], hs[1]),
                                  n.kids[2], hs[2]),
                    n.kids[3], hs[3]),
                hs[4])
      [] n.kind = RETURN_STATEMENT -> FoldIfPresent(n.kind, n.kids[1], hs[1])
      [] n.kind \in {VARIABLE_DECLARATION, IF_STATEMENT} ->
            FoldIfPresent(combine_hashes(combine_hashes(n.kind, hs[1]), hs[2]),
                          n.kids[3], hs[3])
      [] n.kind = FUNCTION_DEFINITION ->
            combine_hashes(
                FoldHashes(combine_hashes(combine_hashes(n.kind, hs[1]), hs[2]),
                           SubSeq(hs, 4, Len(hs))),
                hs[3])

\* getCanonicalHash(): the children are hashed, then the node.  A null child
\* is not called; its place in the sequence holds 0, which no class reads.
RECURSIVE getCanonicalHash(_)
RECURSIVE ChildHashes(_)
ChildHashes(ks) ==
    IF ks = <<>> THEN <<>>
    ELSE << IF Head(ks) = Null THEN 0 ELSE getCanonicalHash(Head(ks)) >>
             \o ChildHashes(Tail(ks))

getCanonicalHash(n) ==
    With(ChildHashes(n.kids), LAMBDA hs : CanonicalHashFrom(n, hs))

\* clone(), by node class: absent optional children stay absent.
RECURSIVE clone(_)

\* A "clone" of an optional child that leaves it out.
cloneAbsent(child) == Null

\* "child ? child->clone() : nullptr"
cloneIfPresent(child) == IF child = Null THEN Null ELSE clone(child)

\* the loop  for (const auto& k : ks) copy.push_back(k->clone());
RECURSIVE cloneEach(_)
cloneEach(ks) ==
    IF ks = <<>> THEN <<>> ELSE <<clone(Head(ks))>> \o cloneEach(Tail(ks))

clone(n) ==
    CASE n.kind = TYPE -> TypeNode(n.text)
      [] n.kind = IDENTIFIER -> IdentifierNode(n.text)
      [] n.kind = NUMBER_LITERAL -> NumberLiteralNode(n.text)
      [] n.kind = STRING_LITERAL -> StringLiteralNode(n.text)
      [] n.kind = CHAR_LITERAL -> CharLiteralNode(n.text)
      [] n.kind = BINARY_EXPRESSION ->
            BinaryExpressionNode(clone(n.kids[1]), clone(n.kids[2]), n.text[1])
      [] n.kind = UNARY_EXPRESSION ->
            UnaryExpressionNode(clone(n.kids[1]), n.text[1])
      [] n.kind = FUNCTION_CALL ->
            FunctionCallNode(clone(n.kids[1]), cloneEach(arguments(n)))
      [] n.kind = PARAMETER -> ParameterNode(clone(n.kids[1]), clone(n.kids[2]))
      [] n.kind = EXPRESSION_STATEMENT -> ExpressionStatementNode(clone(n.kids[1]))
      [] n.kind = BLOCK_STATEMENT -> BlockStatementNode(cloneEach(n.kids))
      [] n.kind = WHILE_STATEMENT ->
            WhileStatementNode(clone(n.kids[1]), clone(n.kids[2]))
      [] n.kind = FOR_STATEMENT ->
            ForStatementNode(cloneIfPresent(n.kids[1]), cloneIfPresent(n.kids[2]),
                             cloneIfPresent(n.kids[3]), clone(n.kids[4]))
      [] n.kind = RETURN_STATEMENT -> ReturnStatementNode(cloneIfPresent(n.kids[1]))
      [] n.kind = VARIABLE_DECLARATION ->
            VariableDeclarationNode(clone(n.kids[1]), clone(n.kids[2]),
                                    cloneIfPresent(n.kids[3]))
      [] n.kind = IF_STATEMENT ->
            IfStatementNode(clone(n.kids[1]), clone(n.kids[2]),
                            cloneIfPresent(n.kids[3]))
      [] n.kind = FUNCTION_DEFINITION ->
            FunctionDefinitionNode(clone(n.kids[1]), clone(n.kids[2]),
                                   clone(n.kids[3]), cloneEach(parameters(n)))
      [] n.kind = PROGRAM -> ProgramNode(cloneEach(n.kids))

\* Nodes as objects.  A tree in memory: every node carries the address of its
\* object.  The parser allocates every node with make_unique, so a parsed tree
\* lies at addresses of its own, here first, first + 1, ... in preorder.
RECURSIVE Placed(_, _)
RECURSIVE PlacedEach(_, _)
PlacedEach(ks, first) ==
    IF ks = <<>> THEN [trees |-> <<>>, next |-> first]
    ELSE With(Placed(Head(ks), first), LAMBDA h :
         With(PlacedEach(Tail(ks), h.next), LAMBDA t :
              [trees |-> <<h.tree>> \o t.trees, next |-> t.next]))
Placed(n, first) ==
    IF n = Null THEN [tree |-> Null, next |-> first]
    ELSE With(PlacedEach(n.kids, first + 1), LAMBDA ks :
              [tree |-> [at |-> first, kind |-> n.kind, text |-> n.text,
                         kids |-> ks.trees],
               next |-> ks.next])

\* clone() on a tree in memory, the next free address being free: the
\* children are cloned (an absent one stays absent), then "new" gives the
\* copy an object of its own.
RECURSIVE cloneAt(_, _)
RECURSIVE cloneEachAt(_, _)
cloneEachAt(ks, free) ==
    IF ks = <<>> THEN [trees |-> <<>>, next |-> free]
    ELSE With(cloneAt(Head(ks), free), LAMBDA h :
         With(cloneEachAt(Tail(ks), h.next), LAMBDA t :
              [trees |-> <<h.tree>> \o t.trees, next |-> t.next]))
cloneAt(t, free) ==
    IF t = Null THEN [tree |-> Null, next |-> free]
    ELSE With(cloneEachAt(t.kids, free), LAMBDA ks :
              [tree |-> [at |-> ks.next, kind |-> t.kind, text |-> t.text,
                         kids |-> ks.trees],
               next |-> ks.next + 1])

\* The addresses of the objects of a tree in memory, and the tree they hold
RECURSIVE Addresses(_)
RECURSIVE AddressesOfEach(_)
AddressesOfEach(ks) ==
    IF ks = <<>> THEN {} ELSE Addresses(Head(ks)) \cup AddressesOfEach(Tail(ks))
Addresses(t) ==
    IF t = Null THEN {} ELSE {t.at} \cup AddressesOfEach(t.kids)
RECURSIVE Held(_)
RECURSIVE HeldInEach(_)
HeldInEach(ks) ==
    IF ks = <<>> THEN <<>> ELSE <<Held(Head(ks))>> \o HeldInEach(Tail(ks))
Held(t) ==
    IF t = Null THEN Null
    ELSE [kind |-> t.kind, text |-> t.text, kids |-> HeldInEach(t.kids)]

-----------------------------------------------------------------------------
(* The lexer: Lexer.h, Lexer.cpp.  The source is a sequence of characters,  *)
(* each a string of length one (source[k] in C++ is src[k + 1]); a reading  *)
(* function takes the source and current_pos and yields current_pos after  *)
(* it.                                                                      *)

\* Lexer::keywords
keywords ==
    { "alignas", "alignof", "and", "and_eq", "asm", "atomic_cancel",
      "atomic_commit", "atomic_noexcept", "auto", "bitand", "bitor", "bool",
      "break", "case", "catch", "char", "char8_t", "char16_t", "char32_t",
      "class", "compl", "concept", "const", "consteval", "constexpr",
      "constinit", "const_cast", "continue", "co_await", "co_return",
      "co_yield", "decltype", "default", "delete", "do", "double",
      "dynamic_cast", "else", "enum", "explicit", "export", "extern",
      "false", "float", "for", "friend", "goto", "if", "inline", "int",
      "long", "mutable", "namespace", "new", "noexcept", "not", "not_eq",
      "nullptr", "operator", "or", "or_eq", "private", "protected",
      "public", "reflexpr", "register", "reinterpret_cast", "requires",
      "return", "short", "signed", "sizeof", "static", "static_assert",
      "static_cast", "struct", "switch", "synchronized", "template", "this",
      "thread_local", "throw", "true", "try", "typedef", "typeid",
      "typename", "union", "unsigned", "using", "virtual", "void",
      "volatile", "wchar_t", "while", "xor", "xor_eq" }

\* Lexer::single_char_operators_delimiters
single_char_operators_delimiters ==
    { "+", "-", "*", "/", "%", "=", "<", ">", "!", "&", "|", "^", "~", "(",
      ")", "{", "}", "[", "]", ";", ",", ".", ":", "?" }

\* The keys of Lexer::multi_char_operators, each as its characters
multi_char_operators ==
    { <<"=", "=">>, <<"!", "=">>, <<"<", "=">>, <<">", "=">>, <<"&", "&">>,
      <<"|", "|">>, <<"+", "+">>, <<"-", "-">>, <<"<", "<">>, <<">", ">">>,
      <<"-", ">">>, <<":", ":">>, <<"+", "=">>, <<"-", "=">>, <<"*", "=">>,
      <<"/", "=">>, <<"%", "=">>, <<"&", "=">>, <<"|", "=">>, <<"^", "=">>,
      <<"<", "<", "=">>, <<">", ">", "=">> }

isAlpha(c) ==
    c \in { "a", "b", "c", "d", "e", "f", "g", "h", "i", "j", "k", "l", "m",
          "n", "o", "p", "q", "r", "s", "t", "u", "v", "w", "x", "y", "z",
          "A", "B", "C", "D", "E", "F", "G", "H", "I", "J", "K", "L", "M",
          "N", "O", "P", "Q", "R", "S", "T", "U", "V", "W", "X", "Y", "Z",
          "_" }

isDigit(c) == c \in {"0", "1", "2", "3", "4", "5", "6", "7", "8", "9"}

isAlphaNumeric(c) == isAlpha(c) \/ isDigit(c)

isWhitespace(c) == c \in {" ", "\t", "\n", "\r"}

isSingleCharOperatorDelimiter(c) == c \in single_char_operators_delimiters

\* source.substr(start, count): count characters from start, or those left
RECURSIVE substr(_, _, _)
substr(src, start, count) ==
    IF count = 0 \/ start >= Len(src) THEN ""
    ELSE src[start + 1] \o substr(src, start + 1, count - 1)

\* Lexer::skipWhitespace
RECURSIVE skipWhitespace(_, _)
skipWhitespace(src, pos) ==
    IF pos < Len(src) /\ isWhitespace(src[pos + 1])
    THEN skipWhitespace(src, pos + 1)
    ELSE pos

\* To the end of the line and past its newline, if there is one
\* (Lexer.cpp lines 98-104 and 128-134).
RECURSIVE skipLine(_, _)
skipLine(src, pos) ==
    IF pos >= Len(src) THEN pos
    ELSE IF src[pos + 1] = "\n" THEN pos + 1
    ELSE skipLine(src, pos + 1)

\* From after the opening of a multi-line comment past its end, or to the
\* end of the source if it is never closed (Lexer.cpp lines 110-119).
RECURSIVE skipBlockComment(_, _)
skipBlockComment(src, pos) ==
    IF pos + 1 < Len(src) /\ ~(src[pos + 1] = "*" /\ src[pos + 2] = "/")
    THEN skipBlockComment(src, pos + 1)
    ELSE IF pos + 1 < Len(src) THEN pos + 2 ELSE Len(src)

\* Lexer::handleComments: current_pos after the call; it returned true if and
\* only if current_pos moved.
handleComments(src, pos) ==
    IF pos + 1 < Len(src) /\ src[pos + 1] = "/" /\ src[pos + 2] = "/"
    THEN skipLine(src, pos)
    ELSE IF pos + 1 < Len(src) /\ src[pos + 1] = "/" /\ src[pos + 2] = "*"
    THEN skipBlockComment(src, pos + 2)
    ELSE pos

\* Lexer::handlePreprocessor, likewise
handlePreprocessor(src, pos) ==
    IF pos < Len(src) /\ src[pos + 1] = "#" THEN skipLine(src, pos) ELSE pos

\* Lexer::readIdentifierOrKeyword
RECURSIVE readIdentifierOrKeyword(_, _)
readIdentifierOrKeyword(src, pos) ==
    IF pos < Len(src) /\ isAlphaNumeric(src[pos + 1])
    THEN readIdentifierOrKeyword(src, pos + 1)
    ELSE pos

\* The loop  while (current_pos < source.length() && isDigit(...)) current_pos++;
RECURSIVE skipDigits(_, _)
skipDigits(src, pos) ==
    IF pos < Len(src) /\ isDigit(src[pos + 1]) THEN skipDigits(src, pos + 1)
    ELSE pos

\* Lexer::readNumber
readNumber(src, pos) ==
    With(skipDigits(src, pos), LAMBDA whole :
         IF whole < Len(src) /\ src[whole + 1] = "."
         THEN skipDigits(src, whole + 1)
         ELSE whole)

\* The loop of readStringLiteral and of readCharLiteral, from after the
\* opening quote: to the closing quote, a backslash skipping the character
\* after it; then past the closing quote, if there is one.
RECURSIVE readQuoted(_, _, _)
readQuoted(src, pos, quote) ==
    IF pos < Len(src) /\ src[pos + 1] # quote
    THEN IF src[pos + 1] = "\\" /\ pos + 1 < Len(src)
         THEN readQuoted(src, pos + 2, quote)
         ELSE readQuoted(src, pos + 1, quote)
    ELSE IF pos < Len(src) THEN pos + 1 ELSE pos

\* Lexer::readStringLiteral
readStringLiteral(src, pos) == readQuoted(src, pos + 1, "\"")

\* Lexer::readCharLiteral
readCharLiteral(src, pos) == readQuoted(src, pos + 1, "'")

\* Lexer::readOperatorOrDelimiter: the operator as its characters
readOperatorOrDelimiter(src, pos) ==
    IF pos + 1 < Len(src) /\ SubSeq(src, pos + 1, pos + 2) \in multi_char_operators
    THEN SubSeq(src, pos + 1, pos + 2)
    ELSE SubSeq(src, pos + 1, pos + 1)

\* Lexer::getIdentifierOrKeywordType
getIdentifierOrKeywordType(value) ==
    IF value \in keywords THEN "KEYWORD" ELSE "IDENTIFIER"

\* The token tokenize() reads at pos (Lexer.cpp lines 23-59), pos being
\* neither whitespace nor the start of a comment or of a directive: the
\* value pushed and current_pos after it; for a character that starts no
\* token, no value.
NoToken == ""
readToken(src, pos) ==
    IF isAlpha(src[pos + 1])
    THEN With(readIdentifierOrKeyword(src, pos), LAMBDA end :
         With(substr(src, pos, end - pos), LAMBDA token_value :
         [value |-> IF getIdentifierOrKeywordType(token_value) = "IDENTIFIER"
                    THEN "IDENTIFIER" ELSE token_value,
          pos |-> end]))
    ELSE IF isDigit(src[pos + 1])
    THEN [value |-> "NUMBER_LITERAL", pos |-> readNumber(src, pos)]
    ELSE IF src[pos + 1] = "\""
    THEN [value |-> "STRING_LITERAL", pos |-> readStringLiteral(src, pos)]
    ELSE IF src[pos + 1] = "'"
    THEN [value |-> "CHAR_LITERAL", pos |-> readCharLiteral(src, pos)]
    ELSE IF isSingleCharOperatorDelimiter(src[pos + 1])
    THEN With(readOperatorOrDelimiter(src, pos), LAMBDA op :
         [value |-> substr(op, 0, Len(op)), pos |-> pos + Len(op)])
    ELSE [value |-> NoToken, pos |-> pos + 1]

-----------------------------------------------------------------------------
(* The parser: Parser.cpp.  A parsing function takes the token vector and   *)
(* current_pos and yields a Parsed record: the node built and current_pos   *)
(* after it, or the SyntaxError thrown.                                     *)

\* Parser::getTokenType
getTokenType(token_value) ==
    IF token_value \in {"if", "else", "while", "for", "return", "int", "void",
                        "bool", "true", "false", "nullptr", "const"}
        THEN "KEYWORD"
    ELSE IF token_value \in {"=", "+=", "-=", "*=", "/=", "%=", "==", "!=", "<",
                             ">", "<=", ">=", "&&", "||", "!", "++", "--", "+",
                             "-", "*", "/", "%", "->", "::", "<<", ">>"}
        THEN "OPERATOR"
    ELSE IF token_value \in {"(", ")", "{", "}", ";", ",", "?", ":"}
        THEN "DELIMITER"
    ELSE IF token_value = "IDENTIFIER" THEN "IDENTIFIER"
    ELSE IF token_value = "NUMBER_LITERAL" THEN "LITERAL_INT"
    ELSE IF token_value = "STRING_LITERAL" THEN "LITERAL_STRING"
    ELSE IF token_value = "CHAR_LITERAL" THEN "LITERAL_CHAR"
    ELSE IF token_value = "END_OF_FILE" THEN "END_OF_FILE"
    ELSE "UNKNOWN"

\* Parser::peek; pos counts the tokens consumed (tokens[pos] in C++ is toks[pos + 1])
peek(toks, pos) == IF pos < Len(toks) THEN toks[pos + 1] ELSE "END_OF_FILE"

\* Parser::consume: the new current_pos
consume(toks, pos) == IF pos < Len(toks) THEN pos + 1 ELSE pos

check(toks, pos, expected_value) == peek(toks, pos) = expected_value

checkType(toks, pos, expected_type) == getTokenType(peek(toks, pos)) = expected_type

\* No index is part of the message.
NoIndex == -1

\* A thrown std::runtime_error: the raise site, the token the message reports as
\* found, and the index it reports (NoIndex if it reports none).  at is
\* current_pos at the moment the failing test was evaluated, where the token
\* that did not meet the expectation is.
SyntaxError(site, expected, found, index, at) ==
    [site |-> site, expected |-> expected, found |-> found, index |-> index,
     at |-> at]

NoError == SyntaxError("", "", "", NoIndex, NoIndex)

\* hang: a loop iteration ended without an exception and without moving
\* current_pos, so the loop repeats it forever.
Parsed(n, pos) ==
    [ok |-> TRUE, hang |-> FALSE, node |-> n, pos |-> pos, err |-> NoError]
Thrown(e, pos) ==
    [ok |-> FALSE, hang |-> FALSE, node |-> Null, pos |-> pos, err |-> e]
Hung(pos) ==
    [ok |-> FALSE, hang |-> TRUE, node |-> Null, pos |-> pos, err |-> NoError]

\* A vector of nodes carried in a Parsed record.
NodeList(ns) == [kind |-> -2, text |-> <<>>, kids |-> ns]

\* Parser::match
match(toks, pos, expected_value) ==
    IF peek(toks, pos) = expected_value
    THEN Parsed(Null, consume(toks, pos))
    ELSE Thrown(SyntaxError("match", expected_value, peek(toks, pos), pos, pos), pos)

\* What follows a call that may throw: an exception (or a hang) in r
\* propagates; otherwise Continue goes on from r.  r is evaluated once.
Then(r, Continue(_)) ==
    CHOOSE out \in {IF x.ok THEN Continue(x) ELSE x : x \in {r}} : TRUE

\* A name that is never continued by "::".
parseUnqualified(toks, pos, name) == Parsed(IdentifierNode(name), pos)

\* The loop  while (check("::")) { match("::"); name += "::" + peek();
\* match("IDENTIFIER"); }  of parseType and parsePrimaryExpression; the node of
\* the result carries the name.
RECURSIVE parseQualification(_, _, _)
parseQualification(toks, pos, name) ==
    IF ~check(toks, pos, "::") THEN Parsed(IdentifierNode(name), pos)
    ELSE Then(match(toks, pos, "::"), LAMBDA m1 :
         Then(match(toks, m1.pos, "IDENTIFIER"), LAMBDA m2 :
         IF m2.pos = pos THEN Hung(pos)
         ELSE parseQualification(toks, m2.pos,
                                 name \o <<"::", peek(toks, m1.pos)>>)))

\* Parser::parseType
parseType(toks, pos) ==
    LET isConst == check(toks, pos, "const")
        p1 == IF isConst THEN consume(toks, pos) ELSE pos
        prefix == IF isConst THEN <<"const", " ">> ELSE <<>>
    IN  IF checkType(toks, p1, "KEYWORD") \/ checkType(toks, p1, "IDENTIFIER")
        THEN Then(parseQualification(toks, consume(toks, p1),
                                     prefix \o <<peek(toks, p1)>>),
                  LAMBDA q : Parsed(TypeNode(q.node.text), q.pos))
        ELSE Thrown(SyntaxError("parseType", "a type", peek(toks, p1), p1, p1), p1)

RECURSIVE parseStatement(_, _)
RECURSIVE parseBlockStatement(_, _)
RECURSIVE parseExpression(_, _)
RECURSIVE parseAssignmentExpression(_, _)
RECURSIVE parseBinaryLevel(_, _, _)
RECURSIVE parseUnaryExpression(_, _)

\* Parser::parseParameter
parseParameter(toks, pos) ==
    Then(parseType(toks, pos), LAMBDA type :
    Then(match(toks, type.pos, "IDENTIFIER"), LAMBDA m :
    Parsed(ParameterNode(type.node, IdentifierNode(<<peek(toks, type.pos)>>)),
           m.pos)))

\* The loop  while (check(",")) { consume(); parameters.push_back(parseParameter()); }
RECURSIVE parseMoreParameters(_, _, _)
parseMoreParameters(toks, pos, params) ==
    IF ~check(toks, pos, ",") THEN Parsed(NodeList(params), pos)
    ELSE Then(parseParameter(toks, consume(toks, pos)), LAMBDA r :
         IF r.pos = pos THEN Hung(pos)
         ELSE parseMoreParameters(toks, r.pos, Append(params, r.node)))

\* Parser::parseFunctionDefinition
parseFunctionDefinition(toks, pos) ==
    Then(parseType(toks, pos), LAMBDA return_type :
    Then(match(toks, return_type.pos, "IDENTIFIER"), LAMBDA m1 :
    Then(match(toks, m1.pos, "("), LAMBDA m2 :
    Then(IF check(toks, m2.pos, ")") THEN Parsed(NodeList(<<>>), m2.pos)
         ELSE Then(parseParameter(toks, m2.pos), LAMBDA first :
              parseMoreParameters(toks, first.pos, <<first.node>>)),
         LAMBDA params :
    Then(match(toks, params.pos, ")"), LAMBDA m3 :
    Then(parseBlockStatement(toks, m3.pos), LAMBDA body :
    Parsed(FunctionDefinitionNode(
               return_type.node, IdentifierNode(<<peek(toks, return_type.pos)>>),
               body.node, params.node.kids),
           body.pos)))))))

\* Parser::parseDeclarationStatement
parseDeclarationStatement(toks, pos) ==
    Then(parseType(toks, pos), LAMBDA type :
    Then(match(toks, type.pos, "IDENTIFIER"), LAMBDA m1 :
    Then(IF check(toks, m1.pos, "=")
         THEN parseExpression(toks, consume(toks, m1.pos))
         ELSE Parsed(Null, m1.pos),
         LAMBDA initializer :
    Then(match(toks, initializer.pos, ";"), LAMBDA m2 :
    Parsed(VariableDeclarationNode(
               type.node, IdentifierNode(<<peek(toks, type.pos)>>),
               initializer.node),
           m2.pos)))))

\* Parser::parseExpressionStatement
parseExpressionStatement(toks, pos) ==
    Then(parseExpression(toks, pos), LAMBDA expr :
    Then(match(toks, expr.pos, ";"), LAMBDA m :
    Parsed(ExpressionStatementNode(expr.node), m.pos)))

\* The lookahead of parseStatement and of parseForStatement's initializer:
\* whether what starts at pos looks like "type identifier".
LooksLikeDeclaration(toks, pos) ==
    LET current_token == peek(toks, pos)
        p1 == consume(toks, pos)
        p2 == IF current_token = "const" /\
                 getTokenType(peek(toks, p1)) \in {"KEYWORD", "IDENTIFIER"}
              THEN consume(toks, p1) ELSE p1
    IN  /\ getTokenType(current_token) \in {"KEYWORD", "IDENTIFIER"}
        /\ checkType(toks, p2, "IDENTIFIER")

\* A parseIfStatement that hands the else of a nested if to the enclosing one.
parseIfStatementOuterElse(toks, pos) ==
    Then(match(toks, pos, "if"), LAMBDA m1 :
    Then(match(toks, m1.pos, "("), LAMBDA m2 :
    Then(parseExpression(toks, m2.pos), LAMBDA condition :
    Then(match(toks, condition.pos, ")"), LAMBDA m3 :
    Then(parseStatement(toks, m3.pos), LAMBDA then_branch :
    Then(IF check(toks, then_branch.pos, "else")
         THEN parseStatement(toks, consume(toks, then_branch.pos))
         ELSE Parsed(Null, then_branch.pos),
         LAMBDA else_branch :
    IF /\ then_branch.node.kind = IF_STATEMENT
       /\ then_branch.node.kids[3] # Null
       /\ else_branch.node = Null
    THEN Parsed(IfStatementNode(condition.node,
                    IfStatementNode(then_branch.node.kids[1],
                                    then_branch.node.kids[2], Null),
                    then_branch.node.kids[3]),
                else_branch.pos)
    ELSE Parsed(IfStatementNode(condition.node, then_branch.node,
                                else_branch.node),
                else_branch.pos)))))))

\* Parser::parseIfStatement
parseIfStatement(toks, pos) ==
    Then(match(toks, pos, "if"), LAMBDA m1 :
    Then(match(toks, m1.pos, "("), LAMBDA m2 :
    Then(parseExpression(toks, m2.pos), LAMBDA condition :
    Then(match(toks, condition.pos, ")"), LAMBDA m3 :
    Then(parseStatement(toks, m3.pos), LAMBDA then_branch :
    Then(IF check(toks, then_branch.pos, "else")
         THEN parseStatement(toks, consume(toks, then_branch.pos))
         ELSE Parsed(Null, then_branch.pos),
         LAMBDA else_branch :
    Parsed(IfStatementNode(condition.node, then_branch.node, else_branch.node),
           else_branch.pos)))))))

\* Parser::parseWhileStatement
parseWhileStatement(toks, pos) ==
    Then(match(toks, pos, "while"), LAMBDA m1 :
    Then(match(toks, m1.pos, "("), LAMBDA m2 :
    Then(parseExpression(toks, m2.pos), LAMBDA condition :
    Then(match(toks, condition.pos, ")"), LAMBDA m3 :
    Then(parseStatement(toks, m3.pos), LAMBDA body :
    Parsed(WhileStatementNode(condition.node, body.node), body.pos))))))

\* A parseForStatement that always expects a condition.
parseForStatementWithCondition(toks, pos) ==
    Then(match(toks, pos, "for"), LAMBDA m1 :
    Then(match(toks, m1.pos, "("), LAMBDA m2 :
    Then(IF ~check(toks, m2.pos, ";")
         THEN IF LooksLikeDeclaration(toks, m2.pos)
              THEN parseDeclarationStatement(toks, m2.pos)
              ELSE parseExpressionStatement(toks, m2.pos)
         ELSE match(toks, m2.pos, ";"),
         LAMBDA initializer :
    Then(parseExpression(toks, initializer.pos), LAMBDA condition :
    Then(match(toks, condition.pos, ";"), LAMBDA m3 :
    Then(IF ~check(toks, m3.pos, ")")
         THEN parseExpression(toks, m3.pos)
         ELSE Parsed(Null, m3.pos),
         LAMBDA increment :
    Then(match(toks, increment.pos, ")"), LAMBDA m4 :
    Then(parseStatement(toks, m4.pos), LAMBDA body :
    Parsed(ForStatementNode(initializer.node, condition.node, increment.node,
                            body.node),
           body.pos)))))))))

\* Parser::parseForStatement
parseForStatement(toks, pos) ==
    Then(match(toks, pos, "for"), LAMBDA m1 :
    Then(match(toks, m1.pos, "("), LAMBDA m2 :
    Then(IF ~check(toks, m2.pos, ";")
         THEN IF LooksLikeDeclaration(toks, m2.pos)
              THEN parseDeclarationStatement(toks, m2.pos)
              ELSE parseExpressionStatement(toks, m2.pos)
         ELSE match(toks, m2.pos, ";"),
         LAMBDA initializer :
    Then(IF ~check(toks, initializer.pos, ";")
         THEN parseExpression(toks, initializer.pos)
         ELSE Parsed(Null, initializer.pos),
         LAMBDA condition :
    Then(match(toks, condition.pos, ";"), LAMBDA m3 :
    Then(IF ~check(toks, m3.pos, ")")
         THEN parseExpression(toks, m3.pos)
         ELSE Parsed(Null, m3.pos),
         LAMBDA increment :
    Then(match(toks, increment.pos, ")"), LAMBDA m4 :
    Then(parseStatement(toks, m4.pos), LAMBDA body :
    Parsed(ForStatementNode(initializer.node, condition.node, increment.node,
                            body.node),
           body.pos)))))))))

\* Parser::parseReturnStatement
parseReturnStatement(toks, pos) ==
    Then(match(toks, pos, "return"), LAMBDA m1 :
    Then(IF ~check(toks, m1.pos, ";")
         THEN parseExpression(toks, m1.pos)
         ELSE Parsed(Null, m1.pos),
         LAMBDA expr :
    Then(match(toks, expr.pos, ";"), LAMBDA m2 :
    Parsed(ReturnStatementNode(expr.node), m2.pos))))

\* Parser::parseStatement
parseStatement(toks, pos) ==
    IF check(toks, pos, "{") THEN parseBlockStatement(toks, pos)
    ELSE IF check(toks, pos, "if") THEN parseIfStatement(toks, pos)
    ELSE IF check(toks, pos, "while") THEN parseWhileStatement(toks, pos)
    ELSE IF check(toks, pos, "for") THEN parseForStatement(toks, pos)
    ELSE IF check(toks, pos, "return") THEN parseReturnStatement(toks, pos)
    ELSE IF LooksLikeDeclaration(toks, pos)
         THEN parseDeclarationStatement(toks, pos)
    ELSE parseExpressionStatement(toks, pos)

\* The loop of parseBlockStatement:  while (!check("}")) { if (check(
\* "END_OF_FILE")) throw ...; statements.push_back(parseStatement()); }
RECURSIVE parseBlockStatements(_, _, _)
parseBlockStatements(toks, pos, statements) ==
    IF check(toks, pos, "}") THEN Parsed(NodeList(statements), pos)
    ELSE IF check(toks, pos, "END_OF_FILE")
    THEN Thrown(SyntaxError("parseBlockStatement", "}", "END_OF_FILE",
                            NoIndex, pos), pos)
    ELSE Then(parseStatement(toks, pos), LAMBDA r :
         IF r.pos = pos THEN Hung(pos)
         ELSE parseBlockStatements(toks, r.pos, Append(statements, r.node)))

\* Parser::parseBlockStatement
parseBlockStatement(toks, pos) ==
    Then(match(toks, pos, "{"), LAMBDA m1 :
    Then(parseBlockStatements(toks, m1.pos, <<>>), LAMBDA stmts :
    Then(match(toks, stmts.pos, "}"), LAMBDA m2 :
    Parsed(BlockStatementNode(stmts.node.kids), m2.pos))))

\* Parser::parseExpression
parseExpression(toks, pos) == parseAssignmentExpression(toks, pos)

\* LevelOperators with the additive and the multiplicative level exchanged
LevelOperatorsMultiplicativeFirst ==
    << {"||"}, {"&&"}, {"==", "!="}, {"<", ">", "<=", ">="}, {"<<", ">>"},
       {"*", "/", "%"}, {"+", "-"} >>

\* The binary levels between assignment and unary, lowest precedence first:
\* parseLogicalOrExpression, parseLogicalAndExpression, parseEqualityExpression,
\* parseRelationalExpression, parseShiftExpression, parseAdditiveExpression,
\* parseMultiplicativeExpression.
LevelOperators ==
    << {"||"}, {"&&"}, {"==", "!="}, {"<", ">", "<=", ">="}, {"<<", ">>"},
       {"+", "-"}, {"*", "/", "%"} >>

\* The operand parser of a level: the next level, parseUnaryExpression after
\* the last.
parseOperand(level, toks, pos) ==
    IF level = Len(LevelOperators) THEN parseUnaryExpression(toks, pos)
    ELSE parseBinaryLevel(level + 1, toks, pos)

\* The loop of a binary level:  while (check(op1) || ...) { op = peek();
\* consume(); right = operand(); expr = Binary(expr, right, op); }
RECURSIVE parseBinaryLoop(_, _, _, _)
parseBinaryLoop(level, toks, pos, expr) ==
    IF peek(toks, pos) \notin LevelOperators[level] THEN Parsed(expr, pos)
    ELSE Then(parseOperand(level, toks, consume(toks, pos)), LAMBDA right :
         IF right.pos = pos THEN Hung(pos)
         ELSE parseBinaryLoop(level, toks, right.pos,
                  BinaryExpressionNode(expr, right.node, peek(toks, pos))))

parseBinaryLevel(level, toks, pos) ==
    Then(parseOperand(level, toks, pos), LAMBDA expr :
    parseBinaryLoop(level, toks, expr.pos, expr.node))

parseLogicalOrExpression(toks, pos) == parseBinaryLevel(1, toks, pos)

\* Parser::parseConditionalExpression
parseConditionalExpression(toks, pos) == parseLogicalOrExpression(toks, pos)

\* Parser::parseAssignmentExpression
parseAssignmentExpression(toks, pos) ==
    Then(parseConditionalExpression(toks, pos), LAMBDA expr :
    IF peek(toks, expr.pos) \in {"=", "+=", "-=", "*=", "/="}
    THEN Then(parseAssignmentExpression(toks, consume(toks, expr.pos)),
              LAMBDA right :
              Parsed(BinaryExpressionNode(expr.node, right.node,
                                          peek(toks, expr.pos)),
                     right.pos))
    ELSE expr)

\* Parser::parsePrimaryExpression
parsePrimaryExpression(toks, pos) ==
    LET token_val == peek(toks, pos)
    IN  IF check(toks, pos, "(")
        THEN Then(parseExpression(toks, consume(toks, pos)), LAMBDA expr :
             Then(match(toks, expr.pos, ")"), LAMBDA m :
             Parsed(expr.node, m.pos)))
        ELSE IF checkType(toks, pos, "IDENTIFIER")
        THEN parseQualification(toks, consume(toks, pos), <<token_val>>)
        ELSE IF checkType(toks, pos, "LITERAL_INT")
        THEN Parsed(NumberLiteralNode(<<token_val>>), consume(toks, pos))
        ELSE IF checkType(toks, pos, "LITERAL_STRING")
        THEN Parsed(StringLiteralNode(<<token_val>>), consume(toks, pos))
        ELSE IF checkType(toks, pos, "LITERAL_CHAR")
        THEN Parsed(CharLiteralNode(<<token_val>>), consume(toks, pos))
        ELSE Thrown(SyntaxError("parsePrimaryExpression", "a primary expression",
                                token_val, pos, pos), pos)

\* The loop  while (check(",")) { consume(); arguments.push_back(parseExpression()); }
RECURSIVE parseMoreArguments(_, _, _)
parseMoreArguments(toks, pos, args) ==
    IF ~check(toks, pos, ",") THEN Parsed(NodeList(args), pos)
    ELSE Then(parseExpression(toks, consume(toks, pos)), LAMBDA r :
         IF r.pos = pos THEN Hung(pos)
         ELSE parseMoreArguments(toks, r.pos, Append(args, r.node)))

\* The loop of parsePostfixExpression:  while (check("++") || check("--") ||
\* check("(")) { ... }
RECURSIVE parsePostfixLoop(_, _, _)
parsePostfixLoop(toks, pos, expr) ==
    IF check(toks, pos, "++") \/ check(toks, pos, "--")
    THEN IF consume(toks, pos) = pos THEN Hung(pos)
         ELSE parsePostfixLoop(toks, consume(toks, pos),
                               UnaryExpressionNode(expr, peek(toks, pos)))
    ELSE IF check(toks, pos, "(")
    THEN Then(match(toks, pos, "("), LAMBDA m1 :
         Then(IF check(toks, m1.pos, ")") THEN Parsed(NodeList(<<>>), m1.pos)
              ELSE Then(parseExpression(toks, m1.pos), LAMBDA first :
                   parseMoreArguments(toks, first.pos, <<first.node>>)),
              LAMBDA args :
         Then(match(toks, args.pos, ")"), LAMBDA m2 :
         IF m2.pos = pos THEN Hung(pos)
         ELSE parsePostfixLoop(toks, m2.pos,
                               FunctionCallNode(expr, args.node.kids)))))
    ELSE Parsed(expr, pos)

\* Parser::parsePostfixExpression
parsePostfixExpression(toks, pos) ==
    Then(parsePrimaryExpression(toks, pos), LAMBDA expr :
    parsePostfixLoop(toks, expr.pos, expr.node))

\* A parseUnaryExpression whose node tells a prefix operator from a postfix
\* one: the operator is stored twice.
parseUnaryExpressionMarked(toks, pos) ==
    IF peek(toks, pos) \in {"++", "--", "+", "-", "!"}
    THEN Then(parseUnaryExpression(toks, consume(toks, pos)), LAMBDA operand :
         Parsed([UnaryExpressionNode(operand.node, peek(toks, pos))
                     EXCEPT !.text = <<peek(toks, pos), peek(toks, pos)>>],
                operand.pos))
    ELSE parsePostfixExpression(toks, pos)

\* Parser::parseUnaryExpression
parseUnaryExpression(toks, pos) ==
    IF peek(toks, pos) \in {"++", "--", "+", "-", "!"}
    THEN Then(parseUnaryExpression(toks, consume(toks, pos)), LAMBDA operand :
         Parsed(UnaryExpressionNode(operand.node, peek(toks, pos)), operand.pos))
    ELSE parsePostfixExpression(toks, pos)

\* An iteration of parseProgram's loop that skips what it cannot dispatch
\* instead of throwing.
parseProgramIterationLenient(toks, pos) ==
    Then(parseType(toks, pos), LAMBDA temp_type :
    IF ~checkType(toks, temp_type.pos, "IDENTIFIER")
    THEN Parsed(Null, pos)
    ELSE IF peek(toks, consume(toks, temp_type.pos)) = "("
    THEN parseFunctionDefinition(toks, pos)
    ELSE IF peek(toks, consume(toks, temp_type.pos)) \in {"=", ";", ","}
    THEN parseDeclarationStatement(toks, pos)
    ELSE Parsed(Null, pos))

\* One iteration of parseProgram's loop (Parser.cpp lines 97-119): the
\* declaration parsed, or the exception.  pos is original_pos.
parseProgramIteration(toks, pos) ==
    Then(parseType(toks, pos), LAMBDA temp_type :
    IF ~checkType(toks, temp_type.pos, "IDENTIFIER")
    THEN Thrown(SyntaxError("parseProgram", "IDENTIFIER", peek(toks, pos), pos,
                            temp_type.pos), pos)
    ELSE IF peek(toks, consume(toks, temp_type.pos)) = "("
    THEN parseFunctionDefinition(toks, pos)
    ELSE IF peek(toks, consume(toks, temp_type.pos)) \in {"=", ";", ","}
    THEN parseDeclarationStatement(toks, pos)
    ELSE Thrown(SyntaxError("parseProgram", "( = ; ,",
                            peek(toks, consume(toks, temp_type.pos)), pos,
                            consume(toks, temp_type.pos)), pos))

-----------------------------------------------------------------------------
(* collectASTFingerprints: main.cpp                                         *)

\* What  for_node->condition->clone()  does when condition is null is not
\* defined by the language.  The outcomes modelled: the process dies, or the
\* call returns some node.
IndeterminateNodes ==
    {IdentifierNode(<<"IDENTIFIER">>), NumberLiteralNode(<<"NUMBER_LITERAL">>)}

UBOutcomes ==
    {[outcome |-> "crash", value |-> Null]} \cup
    {[outcome |-> "indeterminate", value |-> n] : n \in IndeterminateNodes}

\* A canonical_while_body that keeps a block body as one nested statement.
canonical_while_body_nested(for_node) ==
    LET body == for_node.kids[4]
        increment == for_node.kids[3]
        fromBody == IF body = Null THEN <<>> ELSE <<clone(body)>>
    IN  IF increment = Null THEN fromBody
        ELSE Append(fromBody, ExpressionStatementNode(clone(increment)))

\* The statements of canonical_while_body (main.cpp lines 47-60).
canonical_while_body(for_node) ==
    LET body == for_node.kids[4]
        increment == for_node.kids[3]
        fromBody ==
            IF body = Null THEN <<>>
            ELSE IF body.kind = BLOCK_STATEMENT
                 THEN cloneEach(body.kids)
                 ELSE <<clone(body)>>
    IN  IF increment = Null THEN fromBody
        ELSE Append(fromBody, ExpressionStatementNode(clone(increment)))

\* The children collectASTFingerprints recurses into, by node class, in order.
VisitedChildren(n) ==
    CASE n.kind \in {PROGRAM, BLOCK_STATEMENT, FUNCTION_CALL} -> n.kids
      [] n.kind = FUNCTION_DEFINITION ->
            <<n.kids[1], n.kids[2]>> \o parameters(n) \o <<n.kids[3]>>
      [] n.kind \in {VARIABLE_DECLARATION, IF_STATEMENT} ->
            <<n.kids[1], n.kids[2]>> \o
                (IF n.kids[3] = Null THEN <<>> ELSE <<n.kids[3]>>)
      [] n.kind \in {WHILE_STATEMENT, BINARY_EXPRESSION, PARAMETER} ->
            <<n.kids[1], n.kids[2]>>
      [] n.kind = RETURN_STATEMENT ->
            IF n.kids[1] = Null THEN <<>> ELSE <<n.kids[1]>>
      [] n.kind \in {EXPRESSION_STATEMENT, UNARY_EXPRESSION} -> <<n.kids[1]>>
      [] OTHER -> <<>>

\* The result of a collection: whether the process died in it, whether it
\* went through a null pointer, and the set.
Collected(crashed, undefined, fps) ==
    [crashed |-> crashed, undefined |-> undefined, fps |-> fps]

RECURSIVE collectASTFingerprints(_, _)

\* The recursive calls on the children cs, one after the other, into one set.
RECURSIVE collectChildren(_, _)
collectChildren(cs, ub) ==
    IF cs = <<>> THEN Collected(FALSE, FALSE, {})
    ELSE With(collectASTFingerprints(Head(cs), ub), LAMBDA first :
         IF first.crashed THEN first
         ELSE With(collectChildren(Tail(cs), ub), LAMBDA rest :
              Collected(rest.crashed, first.undefined \/ rest.undefined,
                        first.fps \cup rest.fps)))

\* Step 1 of the ForStatementNode branch (main.cpp lines 34-44).
collectInitializer(initializer, ub) ==
    IF initializer = Null THEN Collected(FALSE, FALSE, {})
    ELSE IF initializer.kind = VARIABLE_DECLARATION
         THEN collectASTFingerprints(initializer, ub)
         ELSE With(ExpressionStatementNode(clone(initializer)),
                   LAMBDA initializer_stmt :
                   collectASTFingerprints(initializer_stmt, ub))

\* Steps 2 and 3 of the ForStatementNode branch (main.cpp lines 47-67), after
\* what step 1 collected.
collectCanonicalWhile(for_node, fromInit, ub) ==
    IF for_node.kids[2] = Null /\ ub.outcome = "crash"
    THEN Collected(TRUE, TRUE, fromInit.fps)
    ELSE With(WhileStatementNode(
                  IF for_node.kids[2] = Null THEN ub.value
                  ELSE clone(for_node.kids[2]),
                  BlockStatementNode(canonical_while_body(for_node))),
              LAMBDA canonical_while :
         With(collectASTFingerprints(canonical_while, ub), LAMBDA fromWhile :
              Collected(fromWhile.crashed,
                        fromInit.undefined \/ for_node.kids[2] = Null \/
                            fromWhile.undefined,
                        fromInit.fps \cup fromWhile.fps)))

\* collectASTFingerprints(node, fingerprints) on an empty set, under outcome ub
\* of a null dereference.
collectASTFingerprints(n, ub) ==
    IF n = Null THEN Collected(FALSE, FALSE, {})
    ELSE IF n.kind = FOR_STATEMENT
    THEN With(collectInitializer(n.kids[1], ub), LAMBDA fromInit :
         IF fromInit.crashed THEN fromInit
         ELSE collectCanonicalWhile(n, fromInit, ub))
    ELSE With(collectChildren(VisitedChildren(n), ub), LAMBDA fromChildren :
         Collected(fromChildren.crashed, fromChildren.undefined,
                   {getCanonicalHash(n)} \cup fromChildren.fps))

\* collectASTFingerprints of a tree, or of the statements of a sequence as
\* the loop over a block's statements runs it (main.cpp lines 116-118).
collectTree(n, ub) ==
    IF n.kind = NodeList(<<>>).kind THEN collectChildren(n.kids, ub)
    ELSE collectASTFingerprints(n, ub)

\* Every result the collection of a tree can have: one, unless it goes
\* through a null pointer.
collectOutcomes(n) ==
    With(collectTree(n, CHOOSE ub \in UBOutcomes : TRUE), LAMBDA some :
         IF ~some.undefined THEN {some}
         ELSE {collectTree(n, ub) : ub \in UBOutcomes})

-----------------------------------------------------------------------------
(* calculateJaccardSimilarity: main.cpp                                     *)

\* A std::set<unsigned long long> in iteration order: ascending.
RECURSIVE Ascending(_)
Ascending(S) ==
    IF S = {} THEN <<>>
    ELSE LET m == CHOOSE x \in S : \A y \in S : x <= y
         IN  <<m>> \o Ascending(S \ {m})

\* std::set_intersection on two sorted ranges
RECURSIVE set_intersection(_, _)
set_intersection(r1, r2) ==
    IF r1 = <<>> \/ r2 = <<>> THEN <<>>
    ELSE IF Head(r1) < Head(r2) THEN set_intersection(Tail(r1), r2)
    ELSE IF Head(r2) < Head(r1) THEN set_intersection(r1, Tail(r2))
    ELSE <<Head(r1)>> \o set_intersection(Tail(r1), Tail(r2))

\* A union that stops at the end of the first range.
set_union_first_range(r1, r2) == r1

\* std::set_union on two sorted ranges
RECURSIVE set_union(_, _)
set_union(r1, r2) ==
    IF r1 = <<>> THEN r2
    ELSE IF r2 = <<>> THEN r1
    ELSE IF Head(r2) < Head(r1) THEN <<Head(r2)>> \o set_union(r1, Tail(r2))
    ELSE IF Head(r1) < Head(r2) THEN <<Head(r1)>> \o set_union(Tail(r1), r2)
    ELSE <<Head(r1)>> \o set_union(Tail(r1), Tail(r2))

\* The std::set filled through std::inserter from a range
Inserted(r) == {r[k] : k \in 1..Len(r)}

\* The double  num / den : the quotient is kept exact; the rounding of the
\* division and of the product by 100.0 is not modelled.
Ratio(num, den) == [num |-> num, den |-> den]

RatioEq(a, b) == a.num * b.den = b.num * a.den
RatioLeq(a, b) == a.num * b.den <= b.num * a.den

\* A similarity that divides by the size of the first set instead of the union.
calculateSimilarityOverFirst(s1, s2) ==
    IF s1 = {} /\ s2 = {} THEN Ratio(100, 1)
    ELSE IF s1 = {} \/ s2 = {} THEN Ratio(0, 1)
    ELSE Ratio(Cardinality(s1 \cap s2) * 100, Cardinality(s1))

\* calculateJaccardSimilarity(set1, set2)
calculateJaccardSimilarity(s1, s2) ==
    IF s1 = {} /\ s2 = {} THEN Ratio(100, 1)
    ELSE IF s1 = {} \/ s2 = {} THEN Ratio(0, 1)
    ELSE LET intersection == Inserted(set_intersection(Ascending(s1), Ascending(s2)))
             union_set == Inserted(set_union(Ascending(s1), Ascending(s2)))
         IN  Ratio(Cardinality(intersection) * 100, Cardinality(union_set))

-----------------------------------------------------------------------------
(* The values of the variables of a part of the program that is not running. *)

\* No call has returned yet.
NotComputed == Ratio(-1, 1)

IdleMain ==
    /\ code_documents = <<>> /\ doc = 0 /\ pc = "idle" /\ tokens = <<>>
    /\ current_pos = 0 /\ declarations = <<>> /\ ast_root = Null
    /\ parse_errors = <<>> /\ document_fingerprints = <<>>
    /\ i = 0 /\ j = 0 /\ comparisons = <<>>

IdleCanon ==
    /\ node = Null /\ mirror = Null /\ edit = <<>>
    /\ nodeHashes = <<>> /\ mirrorHashes = <<>>
    /\ nodePrints = Collected(FALSE, FALSE, {}) /\ mirrorPrints = Collected(FALSE, FALSE, {})

IdleJaccard ==
    /\ set1 = {} /\ set2 = {}
    /\ similarity = NotComputed /\ similaritySwapped = NotComputed

IdleLexer ==
    /\ source = <<>> /\ lexer_pos = 0 /\ lexer_tokens = <<>>
    /\ lexer_pc = "idle"

-----------------------------------------------------------------------------
(* Specification Spec: main().  The first loop parses each document and     *)
(* collects its fingerprints, one top-level declaration per step; the       *)
(* second loop compares the recorded documents pairwise.                    *)

\* The corpus: documents as the lexer hands them to the parser (identifiers
\* and literals already replaced by their class names).
MaxTokens == 3
MaxDocs == 2

TopLevelAlphabet ==
    {"int", "const", "IDENTIFIER", "(", ")", ";", "=", "::", ","}
BodyAlphabet == {"IDENTIFIER", "NUMBER_LITERAL", "=", "+", ";", "}", "return", "++"}

\* The sequences of up to n tokens over an alphabet
TokenSeqs(alphabet, n) == UNION {[1..k -> alphabet] : k \in 0..n}

\* "int f() {"
FunctionHead == <<"int", "IDENTIFIER", "(", ")", "{">>

\* Statements with parentheses: "x = (x);", "x(x, 1);", "x();", "(;", "x(;",
\* "return (x;"
ParenthesizedStatements ==
    { <<"IDENTIFIER", "=", "(", "IDENTIFIER", ")", ";", "}">>,
      <<"IDENTIFIER", "(", "IDENTIFIER", ",", "NUMBER_LITERAL", ")", ";", "}">>,
      <<"IDENTIFIER", "(", ")", ";", "}">>,
      <<"(", ";">>,
      <<"IDENTIFIER", "(", ";">>,
      <<"return", "(", "IDENTIFIER", ";">> }

\* "for (<init>; <cond>; <incr>) <body>" with each clause present or not
ForClauseInits == {<<>>, <<"int", "IDENTIFIER", "=", "NUMBER_LITERAL">>,
                   <<"IDENTIFIER", "=", "NUMBER_LITERAL">>}
ForClauseConds == {<<>>, <<"IDENTIFIER", "<", "NUMBER_LITERAL">>}
ForClauseIncrs == {<<>>, <<"++", "IDENTIFIER">>}
ForClauseBodies == {<<"{", "}">>, <<"IDENTIFIER", "++", ";">>,
                    <<"{", "IDENTIFIER", "+=", "IDENTIFIER", ";", "}">>}
ForLoopDocuments ==
    { FunctionHead \o <<"for", "(">> \o init \o <<";">> \o cond \o <<";">> \o
          incr \o <<")">> \o body \o <<"}">> :
        init \in ForClauseInits, cond \in ForClauseConds,
        incr \in ForClauseIncrs, body \in ForClauseBodies }

\* main.cpp's code_snippet_A to code_snippet_E, tokenized
SnippetA ==
    << "int", "IDENTIFIER", "(", "int", "IDENTIFIER", ",", "int", "IDENTIFIER",
       ")", "{", "int", "IDENTIFIER", "=", "IDENTIFIER", "+", "IDENTIFIER", ";",
       "if", "(", "IDENTIFIER", ">", "NUMBER_LITERAL", ")", "{", "return",
       "IDENTIFIER", "*", "NUMBER_LITERAL", ";", "}", "else", "{", "return",
       "IDENTIFIER", ";", "}", "}" >>
SnippetC ==
    << "int", "IDENTIFIER", "(", ")", "{", "int", "IDENTIFIER", "=",
       "NUMBER_LITERAL", ";", "for", "(", "int", "IDENTIFIER", "=",
       "NUMBER_LITERAL", ";", "IDENTIFIER", "<", "NUMBER_LITERAL", ";", "++",
       "IDENTIFIER", ")", "{", "IDENTIFIER", "+=", "IDENTIFIER", ";", "}",
       "return", "NUMBER_LITERAL", ";", "}" >>
SnippetE ==
    << "int", "IDENTIFIER", "(", ")", "{", "int", "IDENTIFIER", "=",
       "NUMBER_LITERAL", ";", "int", "IDENTIFIER", "=", "NUMBER_LITERAL", ";",
       "while", "(", "IDENTIFIER", "<", "NUMBER_LITERAL", ")", "{",
       "IDENTIFIER", "+=", "IDENTIFIER", ";", "IDENTIFIER", "++", ";", "}",
       "return", "NUMBER_LITERAL", ";", "}" >>

\* code_snippet_B: code_snippet_A with other names and two comments
SnippetB ==
    << "int", "IDENTIFIER", "(", "int", "IDENTIFIER", ",", "int", "IDENTIFIER",
       ")", "{", "int", "IDENTIFIER", "=", "IDENTIFIER", "+", "IDENTIFIER", ";",
       "if", "(", "IDENTIFIER", ">", "NUMBER_LITERAL", ")", "{", "return",
       "IDENTIFIER", "*", "NUMBER_LITERAL", ";", "}", "else", "{", "return",
       "IDENTIFIER", ";", "}", "}" >>
\* code_snippet_D: "10 < total_val", "2 * total_val"
SnippetD ==
    << "int", "IDENTIFIER", "(", "int", "IDENTIFIER", ",", "int", "IDENTIFIER",
       ")", "{", "int", "IDENTIFIER", "=", "IDENTIFIER", "+", "IDENTIFIER", ";",
       "if", "(", "NUMBER_LITERAL", "<", "IDENTIFIER", ")", "{", "return",
       "NUMBER_LITERAL", "*", "IDENTIFIER", ";", "}", "else", "{", "return",
       "IDENTIFIER", ";", "}", "}" >>

\* main's code_documents: Snippets A, B, C, D, E in this order
MainDocuments == << SnippetA, SnippetB, SnippetC, SnippetD, SnippetE >>

\* The README's "completely different code":
\* void print_hello() { std::cout << "Hello, World!" << std::endl; }
HelloWorld ==
    << "void", "IDENTIFIER", "(", ")", "{", "IDENTIFIER", "::", "IDENTIFIER",
       "<<", "STRING_LITERAL", "<<", "IDENTIFIER", "::", "IDENTIFIER", ";",
       "}" >>

\* The README's sum example and its different code, as one corpus
DifferentCode == << SnippetA, HelloWorld >>

\* Declarations with a qualified type: "T::U x;" at top level, and
\* "T::U x;", "T::U x = 1;" and "for (T::U x = 1; x < 1; ++x) { }" in a
\* function body
QualifiedTopLevel ==
    <<"IDENTIFIER", "::", "IDENTIFIER", "IDENTIFIER", ";">>
QualifiedInBody ==
    { FunctionHead \o QualifiedTopLevel \o <<"}">>,
      FunctionHead \o
          <<"IDENTIFIER", "::", "IDENTIFIER", "IDENTIFIER", "=",
            "NUMBER_LITERAL", ";", "}">>,
      FunctionHead \o
          <<"for", "(", "IDENTIFIER", "::", "IDENTIFIER", "IDENTIFIER", "=",
            "NUMBER_LITERAL", ";", "IDENTIFIER", "<", "NUMBER_LITERAL", ";",
            "++", "IDENTIFIER", ")", "{", "}", "}">> }

\* "int x; int y = 1;",  "int f() { for (;;) { } }",  "int f( {"
TwoDeclarations ==
    << "int", "IDENTIFIER", ";",
       "int", "IDENTIFIER", "=", "NUMBER_LITERAL", ";" >>
EndlessLoop == FunctionHead \o <<"for", "(", ";", ";", ")", "{", "}", "}">>
MissingParenthesis == <<"int", "IDENTIFIER", "(", "{", "}">>

\* Expression statements "a op1 1 op2 'c';" over every pair of binary
\* operators, and statements with prefix, postfix and parenthesized operands,
\* each with the tree the grammar's precedence table gives it
OperandA == IdentifierNode(<<"IDENTIFIER">>)
OperandB == NumberLiteralNode(<<"NUMBER_LITERAL">>)
OperandC == CharLiteralNode(<<"CHAR_LITERAL">>)
PrecedenceLevel(op) ==
    CASE op \in {"=", "+=", "-=", "*=", "/="} -> 1
      [] op = "||" -> 2
      [] op = "&&" -> 3
      [] op \in {"==", "!="} -> 4
      [] op \in {"<", ">", "<=", ">="} -> 5
      [] op \in {"<<", ">>"} -> 6
      [] op \in {"+", "-"} -> 7
      [] op \in {"*", "/", "%"} -> 8
ExpressionOperators ==
    {"=", "+=", "-=", "*=", "/=", "||", "&&", "==", "!=", "<", ">", "<=", ">=",
     "<<", ">>", "+", "-", "*", "/", "%"}
GroupedLeft(op1, op2) ==
    BinaryExpressionNode(BinaryExpressionNode(OperandA, OperandB, op1),
                         OperandC, op2)
GroupedRight(op1, op2) ==
    BinaryExpressionNode(OperandA,
                         BinaryExpressionNode(OperandB, OperandC, op2), op1)
TwoOperatorCases ==
    { [expression |->
           <<"IDENTIFIER", op1, "NUMBER_LITERAL", op2, "CHAR_LITERAL">>,
       tree |->
           IF PrecedenceLevel(op1) > PrecedenceLevel(op2)
           THEN GroupedLeft(op1, op2)
           ELSE IF PrecedenceLevel(op1) < PrecedenceLevel(op2)
           THEN GroupedRight(op1, op2)
           ELSE IF PrecedenceLevel(op1) = 1
           THEN GroupedRight(op1, op2)
           ELSE GroupedLeft(op1, op2)] :
      op1 \in ExpressionOperators, op2 \in ExpressionOperators }
OperandCases ==
    { [expression |-> <<"-", "IDENTIFIER", "*", "NUMBER_LITERAL">>,
       tree |-> BinaryExpressionNode(UnaryExpressionNode(OperandA, "-"),
                                     OperandB, "*")],
      [expression |-> <<"IDENTIFIER", "*", "-", "NUMBER_LITERAL">>,
       tree |-> BinaryExpressionNode(OperandA,
                                     UnaryExpressionNode(OperandB, "-"), "*")],
      [expression |-> <<"!", "IDENTIFIER", "&&", "NUMBER_LITERAL">>,
       tree |-> BinaryExpressionNode(UnaryExpressionNode(OperandA, "!"),
                                     OperandB, "&&")],
      [expression |-> <<"-", "IDENTIFIER", "++">>,
       tree |-> UnaryExpressionNode(UnaryExpressionNode(OperandA, "++"), "-")],
      [expression |-> <<"++", "IDENTIFIER", "--">>,
       tree |-> UnaryExpressionNode(UnaryExpressionNode(OperandA, "--"), "++")],
      [expression |-> <<"-", "!", "IDENTIFIER">>,
       tree |-> UnaryExpressionNode(UnaryExpressionNode(OperandA, "!"), "-")],
      [expression |-> <<"IDENTIFIER", "++", "*", "NUMBER_LITERAL">>,
       tree |-> BinaryExpressionNode(UnaryExpressionNode(OperandA, "++"),
                                     OperandB, "*")],
      [expression |-> <<"-", "IDENTIFIER", "(", ")">>,
       tree |-> UnaryExpressionNode(FunctionCallNode(OperandA, <<>>), "-")],
      [expression |-> <<"IDENTIFIER", "-", "NUMBER_LITERAL", "-",
                        "CHAR_LITERAL", "-", "IDENTIFIER">>,
       tree |-> BinaryExpressionNode(GroupedLeft("-", "-"), OperandA, "-")],
      [expression |-> <<"IDENTIFIER", "=", "NUMBER_LITERAL", "=",
                        "CHAR_LITERAL", "=", "IDENTIFIER">>,
       tree |-> BinaryExpressionNode(OperandA,
                    BinaryExpressionNode(OperandB,
                        BinaryExpressionNode(OperandC, OperandA, "="), "="),
                    "=")],
      [expression |-> <<"(", "IDENTIFIER", "+", "NUMBER_LITERAL", ")", "*",
                        "CHAR_LITERAL">>,
       tree |-> GroupedLeft("+", "*")],
      [expression |-> <<"IDENTIFIER", "-", "(", "NUMBER_LITERAL", "-",
                        "CHAR_LITERAL", ")">>,
       tree |-> GroupedRight("-", "-")],
      [expression |-> <<"(", "IDENTIFIER", "=", "NUMBER_LITERAL", ")", "=",
                        "CHAR_LITERAL">>,
       tree |-> GroupedLeft("=", "=")],
      [expression |-> <<"-", "(", "IDENTIFIER", "+", "NUMBER_LITERAL", ")">>,
       tree |-> UnaryExpressionNode(
                    BinaryExpressionNode(OperandA, OperandB, "+"), "-")],
      [expression |-> <<"(", "IDENTIFIER", "+", "NUMBER_LITERAL", ")", "++">>,
       tree |-> UnaryExpressionNode(
                    BinaryExpressionNode(OperandA, OperandB, "+"), "++")] }
PrecedenceCases == TwoOperatorCases \cup OperandCases
ExpressionDocument(expression) == FunctionHead \o expression \o <<";", "}">>
PrecedenceDocuments ==
    {ExpressionDocument(c.expression) : c \in PrecedenceCases}

\* "if (c1) if (c2) ... if (cn) x; else 1;" in a function body, for n up to
\* MaxIfDepth, the conditions taken in turn from the four kinds of leaf; and
\* "if (x) { if (1) x; } else 1;", "if (x) if (1) x; else 1; else return;" and
\* "if (x) while (1) if ('c') x; else 1;"
MaxIfDepth == 3
IfConditions ==
    <<"IDENTIFIER", "NUMBER_LITERAL", "CHAR_LITERAL", "STRING_LITERAL">>
IfCondition(k) == IfConditions[((k - 1) % 4) + 1]
RECURSIVE IfHeads(_, _)
IfHeads(k, n) ==
    IF k > n THEN <<>>
    ELSE <<"if", "(", IfCondition(k), ")">> \o IfHeads(k + 1, n)
NestedIfDocument(n) ==
    FunctionHead \o IfHeads(1, n)
        \o <<"IDENTIFIER", ";", "else", "NUMBER_LITERAL", ";", "}">>
BracedIfDocument ==
    FunctionHead \o
        <<"if", "(", "IDENTIFIER", ")", "{", "if", "(", "NUMBER_LITERAL", ")",
          "IDENTIFIER", ";", "}", "else", "NUMBER_LITERAL", ";", "}">>
TwoElseDocument ==
    FunctionHead \o IfHeads(1, 2) \o
        <<"IDENTIFIER", ";", "else", "NUMBER_LITERAL", ";", "else", "return",
          ";", "}">>
IfWhileIfDocument ==
    FunctionHead \o
        <<"if", "(", "IDENTIFIER", ")", "while", "(", "NUMBER_LITERAL", ")",
          "if", "(", "CHAR_LITERAL", ")", "IDENTIFIER", ";", "else",
          "NUMBER_LITERAL", ";", "}">>
IfDocuments ==
    {NestedIfDocument(n) : n \in 1..MaxIfDepth}
        \cup {BracedIfDocument, TwoElseDocument, IfWhileIfDocument}

\* "int f() { x + 1; 1 + x; }"
CommutedTwice ==
    FunctionHead \o
        <<"IDENTIFIER", "+", "NUMBER_LITERAL", ";",
          "NUMBER_LITERAL", "+", "IDENTIFIER", ";", "}">>

Documents ==
    TokenSeqs(TopLevelAlphabet, MaxTokens)
        \cup {FunctionHead \o body : body \in TokenSeqs(BodyAlphabet, MaxTokens)}
        \cup {FunctionHead \o body : body \in ParenthesizedStatements}
        \cup ForLoopDocuments
        \cup {SnippetA, SnippetC, SnippetE, TwoDeclarations}
        \cup {QualifiedTopLevel} \cup QualifiedInBody
        \cup PrecedenceDocuments \cup IfDocuments \cup {CommutedTwice}

SmallCorpus ==
    {SnippetC, SnippetE, TwoDeclarations, EndlessLoop, MissingParenthesis}

\* "++e;" and "e++;", "--e;" and "e--;", for the operands x, 1, 'c', "s",
\* x(), x::x and (x + 1): each pair a corpus of two documents
IncrementOperands ==
    { <<"IDENTIFIER">>, <<"NUMBER_LITERAL">>, <<"CHAR_LITERAL">>,
      <<"STRING_LITERAL">>, <<"IDENTIFIER", "(", ")">>,
      <<"IDENTIFIER", "::", "IDENTIFIER">>,
      <<"(", "IDENTIFIER", "+", "NUMBER_LITERAL", ")">> }
PrefixDocument(operand, op) == ExpressionDocument(<<op>> \o operand)
PostfixDocument(operand, op) == ExpressionDocument(operand \o <<op>>)
IncrementCorpora ==
    { <<PrefixDocument(operand, op), PostfixDocument(operand, op)>> :
          operand \in IncrementOperands, op \in {"++", "--"} }

\* An empty document and "int x; int y = 1;"
EmptyDocument == <<>>
EmptyAndDeclarations == << EmptyDocument, TwoDeclarations >>

Corpora ==
    {<<d>> : d \in Documents} \cup
        UNION {[1..n -> SmallCorpus] : n \in 2..MaxDocs} \cup
        {MainDocuments, DifferentCode, EmptyAndDeclarations}
        \cup IncrementCorpora

\* double similarity_threshold = 70.0;
similarity_threshold == 70

Init ==
    /\ code_documents \in Corpora
    /\ doc = 1
    /\ pc = "parse"
    /\ tokens = code_documents[1]
    /\ current_pos = 0
    /\ declarations = <<>>
    /\ ast_root = Null
    /\ parse_errors = <<>>
    /\ document_fingerprints = <<>>
    /\ i = 0 /\ j = 0
    /\ comparisons = <<>>
    /\ IdleCanon /\ IdleJaccard /\ IdleLexer

\* The end of an iteration of the document loop (by continue or by reaching
\* the end of its body): on to the next document, or to the pairwise loop.
NextDocument ==
    /\ doc' = doc + 1
    /\ ast_root' = Null
    /\ declarations' = <<>>
    /\ current_pos' = 0
    /\ IF doc < Len(code_documents)
       THEN /\ pc' = "parse"
            /\ tokens' = code_documents[doc + 1]
            /\ UNCHANGED << i, j >>
       ELSE /\ pc' = "compare"
            /\ tokens' = <<>>
            /\ i' = 0 /\ j' = 1

\* parseProgram's loop body, once: a declaration is appended.  Should the
\* iteration end without an exception and without having moved current_pos,
\* the loop would never end.
ParseDeclaration ==
    /\ pc = "parse"
    /\ ~check(tokens, current_pos, "END_OF_FILE")
    /\ \E r \in {parseProgramIteration(tokens, current_pos)} :
           /\ r.ok \/ r.hang
           /\ IF r.hang \/ r.pos = current_pos
              THEN /\ pc' = "hang"
                   /\ UNCHANGED << current_pos, declarations >>
              ELSE /\ current_pos' = r.pos
                   /\ declarations' = Append(declarations, r.node)
                   /\ pc' = pc
    /\ UNCHANGED << code_documents, doc, tokens, ast_root, parse_errors,
                    document_fingerprints, i, j, comparisons, hashVars,
                    jaccardVars, lexerVars >>

\* parseProgram's loop body throws; main catches, reports and continues.
ParseThrow ==
    /\ pc = "parse"
    /\ ~check(tokens, current_pos, "END_OF_FILE")
    /\ \E r \in {parseProgramIteration(tokens, current_pos)} :
           /\ ~r.ok /\ ~r.hang
           /\ parse_errors' = Append(parse_errors, [name |-> doc, error |-> r.err])
    /\ NextDocument
    /\ UNCHANGED << code_documents, document_fingerprints, comparisons,
                    hashVars, jaccardVars, lexerVars >>

\* parseProgram's loop ends: parse() returns the Program node.
ParseReturn ==
    /\ pc = "parse"
    /\ check(tokens, current_pos, "END_OF_FILE")
    /\ ast_root' = ProgramNode(declarations)
    /\ pc' = "collect"
    /\ UNCHANGED << code_documents, doc, tokens, current_pos, declarations,
                    parse_errors, document_fingerprints, i, j, comparisons,
                    hashVars, jaccardVars, lexerVars >>

\* collectASTFingerprints(ast_root.get(), fingerprints) and the push_back
Collect ==
    /\ pc = "collect"
    /\ \E c \in collectOutcomes(ast_root) :
        IF c.crashed
        THEN /\ pc' = "crashed"
             /\ UNCHANGED << doc, tokens, current_pos, declarations, ast_root,
                             document_fingerprints, i, j >>
        ELSE /\ document_fingerprints' =
                    Append(document_fingerprints,
                           [name |-> doc, fingerprints |-> c.fps])
             /\ NextDocument
    /\ UNCHANGED << code_documents, parse_errors, comparisons, hashVars,
                    jaccardVars, lexerVars >>

\* the body of the inner pairwise loop
ComparePair ==
    /\ pc = "compare"
    /\ i < Len(document_fingerprints)
    /\ j < Len(document_fingerprints)
    /\ LET first == document_fingerprints[i + 1]
           second == document_fingerprints[j + 1]
           score == calculateJaccardSimilarity(first.fingerprints,
                                               second.fingerprints)
       IN  comparisons' =
               Append(comparisons,
                      [doc1_name |-> first.name, doc2_name |-> second.name,
                       similarity |-> score,
                       flagged |-> RatioLeq(Ratio(similarity_threshold, 1),
                                            score)])
    /\ j' = j + 1
    /\ UNCHANGED << code_documents, doc, pc, tokens, current_pos, declarations,
                    ast_root, parse_errors, document_fingerprints, i,
                    hashVars, jaccardVars, lexerVars >>

\* the inner loop ends: ++i, j = i + 1
NextRow ==
    /\ pc = "compare"
    /\ i < Len(document_fingerprints)
    /\ j >= Len(document_fingerprints)
    /\ i' = i + 1
    /\ j' = i + 2
    /\ UNCHANGED << code_documents, doc, pc, tokens, current_pos, declarations,
                    ast_root, parse_errors, document_fingerprints, comparisons,
                    hashVars, jaccardVars, lexerVars >>

\* the outer loop ends: return 0
Return ==
    /\ pc = "compare"
    /\ i >= Len(document_fingerprints)
    /\ pc' = "done"
    /\ UNCHANGED << code_documents, doc, tokens, current_pos, declarations,
                    ast_root, parse_errors, document_fingerprints, i, j,
                    comparisons, hashVars, jaccardVars, lexerVars >>

Next ==
    \/ ParseDeclaration
    \/ ParseThrow
    \/ ParseReturn
    \/ Collect
    \/ ComparePair
    \/ NextRow
    \/ Return

Spec == Init /\ [][Next]_vars

\* C3: on every AST parse() returns, for-loops with any of their three clauses
\* omitted included, collectASTFingerprints completes and returns a set, without
\* dereferencing an absent child or failing.
CollectionIsTotal ==
    pc = "collect" =>
        \A c \in collectOutcomes(ast_root) : ~c.crashed /\ ~c.undefined

\* C6: every SyntaxError reports as found the token at which the expectation
\* failed and as index that token's position, whichever site raised it (match,
\* parseProgram's lookahead, parseType, parsePrimaryExpression,
\* parseBlockStatement).
ErrorsIdentifyOffendingToken ==
    \A k \in 1..Len(parse_errors) :
        /\ parse_errors[k].error.index = parse_errors[k].error.at
        /\ parse_errors[k].error.found =
               peek(code_documents[parse_errors[k].name], parse_errors[k].error.at)

\* C7: parse() terminates, with one Program node owning the top-level
\* declarations in order or with a SyntaxError.  Every step of the parser is an
\* iteration of parseProgram's loop that consumes at least one token and
\* appends one declaration, or the return of the Program node once all tokens
\* are consumed, or a SyntaxError; no iteration of any loop (parseProgram,
\* parseBlockStatement, parsePostfixExpression, the binary-operator loops)
\* ends without an exception and with current_pos unmoved.  Len(tokens) -
\* current_pos decreases with every iteration, so there are finitely many.
ParserTerminates ==
    [][ pc = "parse" =>
          \/ /\ pc' = "parse" /\ doc' = doc
             /\ current_pos < current_pos' /\ current_pos' <= Len(tokens)
             /\ Len(declarations') = Len(declarations) + 1
             /\ SubSeq(declarations', 1, Len(declarations)) = declarations
             /\ declarations'[Len(declarations')] # Null
          \/ /\ pc' = "collect"
             /\ current_pos = Len(tokens)
             /\ ast_root'.kind = PROGRAM /\ ast_root'.kids = declarations
          \/ /\ doc' = doc + 1
             /\ Len(parse_errors') = Len(parse_errors) + 1
             /\ parse_errors'[Len(parse_errors')].name = doc
             /\ parse_errors'[Len(parse_errors')].error # NoError
      ]_vars

\* parse() has returned the Program node of a document of two top-level
\* declarations, all tokens consumed.
ParserTerminatesWitness ==
    /\ pc = "collect" /\ current_pos = Len(tokens) /\ current_pos > 0
    /\ Len(declarations) = 2
    /\ ast_root = ProgramNode(declarations)

\* The documents parse() has returned a Program node for, and those whose
\* parsing raised a SyntaxError.
ParsedDocuments ==
    {k \in 1..Len(code_documents) :
        /\ k < doc \/ (k = doc /\ pc \in {"collect", "crashed"})
        /\ \A e \in 1..Len(parse_errors) : parse_errors[e].name # k}
FailedDocuments == {parse_errors[e].name : e \in 1..Len(parse_errors)}

\* C10: a document whose parsing raises a SyntaxError gets no AST and no
\* fingerprint record, the documents after it are processed, and it takes part
\* in no comparison; every unordered pair of successfully parsed documents is
\* compared exactly once.
FailurePolicy ==
    /\ pc = "collect" => (ast_root # Null /\ doc \notin FailedDocuments)
    /\ \A k \in 1..Len(document_fingerprints) :
           document_fingerprints[k].name \notin FailedDocuments
    /\ \A k \in 1..Len(comparisons) :
           /\ comparisons[k].doc1_name \notin FailedDocuments
           /\ comparisons[k].doc2_name \notin FailedDocuments
    /\ pc = "done" => ParsedDocuments \cup FailedDocuments = 1..Len(code_documents)
    /\ pc \in {"done", "crashed"} =>
           \A a \in ParsedDocuments, b \in ParsedDocuments :
               a < b =>
                   Cardinality({k \in 1..Len(comparisons) :
                                   {comparisons[k].doc1_name,
                                    comparisons[k].doc2_name} = {a, b}}) = 1

-----------------------------------------------------------------------------
(* main's own corpus: documents 1 to 5 are Snippets A, B, C, D and E.       *)

\* C11: in main's corpus, Snippet A scores exactly 100 against Snippet B (the
\* same function with other names) and against Snippet D (operands of +, of
\* the comparison and of * in the other order): once main has returned, each
\* of the two pairs has been compared and every comparison of it recorded 100.
RenamedAndReorderedScoreFull ==
    (code_documents = MainDocuments /\ pc = "done") =>
        \A other \in {2, 4} :
            /\ \E k \in 1..Len(comparisons) :
                   /\ comparisons[k].doc1_name = 1
                   /\ comparisons[k].doc2_name = other
            /\ \A k \in 1..Len(comparisons) :
                   (comparisons[k].doc1_name = 1 /\
                    comparisons[k].doc2_name = other) =>
                       RatioEq(comparisons[k].similarity, Ratio(100, 1))

RenamedAndReorderedScoreFullWitness ==
    /\ code_documents = MainDocuments
    /\ pc = "done"
    /\ Len(comparisons) = 10
    /\ comparisons[1].doc1_name = 1 /\ comparisons[1].doc2_name = 2
    /\ comparisons[3].doc1_name = 1 /\ comparisons[3].doc2_name = 4

\* C12: a pair is flagged exactly when its similarity is at least
\* similarity_threshold (70); in main's corpus the pair of Snippet C (for loop)
\* and Snippet E (while loop) is compared, scores at least the threshold,
\* within the README's 75 to 85, and is flagged.
ForAndWhileVersionsFlagged ==
    /\ \A k \in 1..Len(comparisons) :
           comparisons[k].flagged <=>
               RatioLeq(Ratio(similarity_threshold, 1), comparisons[k].similarity)
    /\ (code_documents = MainDocuments /\ pc = "done") =>
           /\ \E k \in 1..Len(comparisons) :
                  /\ comparisons[k].doc1_name = 3
                  /\ comparisons[k].doc2_name = 5
           /\ \A k \in 1..Len(comparisons) :
                  (comparisons[k].doc1_name = 3 /\ comparisons[k].doc2_name = 5)
                      => /\ RatioLeq(Ratio(similarity_threshold, 1),
                                     comparisons[k].similarity)
                         /\ RatioLeq(Ratio(75, 1), comparisons[k].similarity)
                         /\ RatioLeq(comparisons[k].similarity, Ratio(85, 1))
                         /\ comparisons[k].flagged

ForAndWhileVersionsFlaggedWitness ==
    /\ code_documents = MainDocuments
    /\ pc = "done"
    /\ \E k \in 1..Len(comparisons) :
           /\ comparisons[k].doc1_name = 3 /\ comparisons[k].doc2_name = 5
           /\ comparisons[k].flagged
    /\ \E k \in 1..Len(comparisons) : ~comparisons[k].flagged

\* C13: print_hello (document 2 of DifferentCode) parses without an error,
\* and its fingerprints score within 0 to 10 against the sum example (Snippet
\* A, document 1): the pair is compared once and is not flagged.
DifferentCodeScoresLow ==
    code_documents = DifferentCode =>
        /\ parse_errors = <<>>
        /\ pc \notin {"hang", "crashed"}
        /\ pc = "done" =>
               /\ Len(document_fingerprints) = 2
               /\ document_fingerprints[2].name = 2
               /\ Len(comparisons) = 1
               /\ comparisons[1].doc1_name = 1 /\ comparisons[1].doc2_name = 2
               /\ RatioLeq(Ratio(0, 1), comparisons[1].similarity)
               /\ RatioLeq(comparisons[1].similarity, Ratio(10, 1))
               /\ ~comparisons[1].flagged

DifferentCodeScoresLowWitness ==
    /\ code_documents = DifferentCode
    /\ pc = "done"
    /\ Len(comparisons) = 1
    /\ ~comparisons[1].flagged
    /\ document_fingerprints[2].fingerprints # {}

-----------------------------------------------------------------------------
(* parseProgram's lookahead                                                 *)

\* C14: in an iteration of parseProgram's loop whose scan finds a type and an
\* identifier, the token after the identifier selects what is parsed from the
\* position the scan began at: after "(" a FunctionDefinition is appended,
\* after "=", ";" or "," a VariableDeclaration is appended, each with the
\* scanned type as its type, unless the committed parse fails at a later
\* token; after any other token a SyntaxError of parseProgram is raised.
TopLevelDispatch ==
    [][(pc = "parse" /\ ~check(tokens, current_pos, "END_OF_FILE")) =>
        \A temp_type \in {parseType(tokens, current_pos)} :
            (temp_type.ok /\ checkType(tokens, temp_type.pos, "IDENTIFIER")) =>
                LET after == consume(tokens, temp_type.pos)
                    token_after_identifier == peek(tokens, after)
                    appended(kind) ==
                        /\ Len(declarations') = Len(declarations) + 1
                        /\ declarations'[Len(declarations')].kind = kind
                        /\ declarations'[Len(declarations')].kids[1] =
                               temp_type.node
                        /\ current_pos' > after
                    thrown == Len(parse_errors') = Len(parse_errors) + 1
                    error == parse_errors'[Len(parse_errors')].error
                IN  IF token_after_identifier = "("
                    THEN appended(FUNCTION_DEFINITION) \/
                             (thrown /\ error.at > after)
                    ELSE IF token_after_identifier \in {"=", ";", ","}
                    THEN appended(VARIABLE_DECLARATION) \/
                             (thrown /\ error.at > after)
                    ELSE /\ thrown
                         /\ error.site = "parseProgram"
                         /\ error.found = token_after_identifier
      ]_vars

-----------------------------------------------------------------------------
(* For-loops as the parser builds them and the collector takes them apart.  *)

\* The nodes of a tree
RECURSIVE Subtrees(_)
Subtrees(n) ==
    IF n = Null THEN {}
    ELSE {n} \cup UNION {Subtrees(n.kids[k]) : k \in 1..Len(n.kids)}

\* The ForStatementNodes of a tree
ForStatements(n) == {s \in Subtrees(n) : s.kind = FOR_STATEMENT}

\* C16: what the initializer of a parsed for-loop contributes to the
\* fingerprints is what the same clause contributes as a statement of its
\* own before a while: for a bare expression e, which the parser stores as
\* the expression statement  e;  the hash of ExpressionStatement(e) and the
\* hashes of e's subtrees, and nothing else; for a declaration, what the
\* declaration contributes.
InitializerFingerprints ==
    pc = "collect" =>
        \A for_node \in ForStatements(ast_root) :
            \A ub \in UBOutcomes :
                for_node.kids[1] # Null =>
                    collectInitializer(for_node.kids[1], ub).fps =
                        collectASTFingerprints(for_node.kids[1], ub).fps

\* C17: from a For node the collector takes, besides the initializer's
\* contribution, exactly the fingerprints of the statement
\* while (condition) { statements }  traversed like any while (a for-loop
\* among the statements canonicalized in its turn), where the statements are
\* those of the For's body if it is a block, else the body itself, followed
\* by ExpressionStatement(increment) if and only if there is an increment;
\* the For's own hash is not among them.
SyntheticWhile ==
    pc = "collect" =>
        \A for_node \in ForStatements(ast_root) :
            LET body == for_node.kids[4]
                statements ==
                    (IF body.kind = BLOCK_STATEMENT THEN body.kids ELSE <<body>>)
                    \o (IF for_node.kids[3] = Null THEN <<>>
                        ELSE <<ExpressionStatementNode(for_node.kids[3])>>)
                synthetic == WhileStatementNode(for_node.kids[2],
                                                BlockStatementNode(statements))
            IN  \A ub \in UBOutcomes :
                    \A c \in {collectASTFingerprints(for_node, ub)} :
                        /\ ~c.crashed
                        /\ c.fps =
                               collectInitializer(for_node.kids[1], ub).fps \cup
                               collectASTFingerprints(synthetic, ub).fps
                        /\ getCanonicalHash(for_node) \notin c.fps

\* C20: a for-loop parses with each of its three clauses present or absent,
\* in all eight combinations: the document parses without an error to a tree
\* with one For node whose initializer, condition and increment are null
\* exactly where the clause is absent, and whose body is not null.
ForClausesOptional ==
    \A init \in ForClauseInits, cond \in ForClauseConds,
       incr \in ForClauseIncrs, body \in ForClauseBodies :
        (code_documents[1] =
             FunctionHead \o <<"for", "(">> \o init \o <<";">> \o cond \o
                 <<";">> \o incr \o <<")">> \o body \o <<"}">>) =>
            /\ \A k \in 1..Len(parse_errors) : parse_errors[k].name # 1
            /\ pc # "hang"
            /\ (doc = 1 /\ pc = "collect") =>
                   /\ Cardinality(ForStatements(ast_root)) = 1
                   /\ \A for_node \in ForStatements(ast_root) :
                          /\ for_node.kids[1] = Null <=> init = <<>>
                          /\ for_node.kids[2] = Null <=> cond = <<>>
                          /\ for_node.kids[3] = Null <=> incr = <<>>
                          /\ for_node.kids[4] # Null

\* "for (;;) x++;" has been parsed: a For node with a body and nothing else.
ForClausesOptionalWitness ==
    /\ doc = 1 /\ pc = "collect"
    /\ code_documents[1] =
           FunctionHead \o
               <<"for", "(", ";", ";", ")", "IDENTIFIER", "++", ";", "}">>
    /\ \E for_node \in ForStatements(ast_root) :
           /\ for_node.kids[1] = Null /\ for_node.kids[2] = Null
           /\ for_node.kids[3] = Null
           /\ for_node.kids[4].kind = EXPRESSION_STATEMENT

-----------------------------------------------------------------------------
(* Expressions as the parser builds them                                    *)

\* The statement a one-statement function body holds
OnlyStatement(root) == root.kids[1].kids[3].kids[1]

\* A "(" that opens a parenthesized primary expression: one that follows
\* neither a callee nor the keyword of a statement
Parenthesized(toks) ==
    \E k \in 2..Len(toks) :
        /\ toks[k] = "("
        /\ toks[k - 1] \notin {"IDENTIFIER", ")", "if", "while", "for"}

\* C21: the tree of an expression follows the order assignment < logical-or <
\* logical-and < equality < relational < shift < additive < multiplicative <
\* unary < postfix < primary: in "a op1 b op2 c" the operator of the higher
\* level takes b, two assignment operators group to the right and two operators
\* of any other equal level group to the left; prefix and postfix operators
\* take their operand before any binary operator does; and in a document
\* without parenthesized expressions no binary operator has an operand built by
\* an operator of a lower level, nor a prefix or postfix operator an operand
\* built by a binary operator.
PrecedenceAndAssociativity ==
    /\ \A c \in PrecedenceCases :
           code_documents[1] = ExpressionDocument(c.expression) =>
               /\ \A k \in 1..Len(parse_errors) : parse_errors[k].name # 1
               /\ (doc = 1 /\ pc = "collect") =>
                      OnlyStatement(ast_root) = ExpressionStatementNode(c.tree)
    /\ (doc = 1 /\ pc = "collect" /\ ~Parenthesized(code_documents[1])) =>
           \A s \in Subtrees(ast_root) :
               /\ s.kind = BINARY_EXPRESSION =>
                      LET level == PrecedenceLevel(s.text[1])
                          l == s.kids[1]
                          r == s.kids[2]
                      IN  /\ l.kind = BINARY_EXPRESSION =>
                                 \/ PrecedenceLevel(l.text[1]) > level
                                 \/ /\ PrecedenceLevel(l.text[1]) = level
                                    /\ level # 1
                          /\ r.kind = BINARY_EXPRESSION =>
                                 \/ PrecedenceLevel(r.text[1]) > level
                                 \/ /\ PrecedenceLevel(r.text[1]) = level
                                    /\ level = 1
               /\ s.kind = UNARY_EXPRESSION =>
                      s.kids[1].kind # BINARY_EXPRESSION

\* "a = 1 = 'c';" and "a - 1 - 'c';" and "a + 1 * 'c';" have been parsed
PrecedenceAndAssociativityWitness ==
    /\ doc = 1 /\ pc = "collect"
    /\ \E ops \in {<<"=", "=">>, <<"-", "-">>, <<"+", "*">>} :
           /\ code_documents[1] =
                  ExpressionDocument(<<"IDENTIFIER", ops[1], "NUMBER_LITERAL",
                                       ops[2], "CHAR_LITERAL">>)
           /\ OnlyStatement(ast_root).kids[1].kind = BINARY_EXPRESSION

-----------------------------------------------------------------------------
(* If statements as the parser builds them                                  *)

\* The leaf the parser builds for the condition of the k-th if
IfConditionNode(k) ==
    CASE IfCondition(k) = "IDENTIFIER" -> OperandA
      [] IfCondition(k) = "NUMBER_LITERAL" -> OperandB
      [] IfCondition(k) = "CHAR_LITERAL" -> OperandC
      [] OTHER -> StringLiteralNode(<<"STRING_LITERAL">>)
ThenStatement == ExpressionStatementNode(OperandA)
ElseStatement == ExpressionStatementNode(OperandB)

\* if (ck) ... if (cn) x; else 1;  with the else on the innermost if
RECURSIVE InnermostElse(_, _)
InnermostElse(k, n) ==
    IF k = n
    THEN IfStatementNode(IfConditionNode(n), ThenStatement, ElseStatement)
    ELSE IfStatementNode(IfConditionNode(k), InnermostElse(k + 1, n), Null)

\* C22: in "if (c1) if (c2) s1 else s2" the else belongs to the inner if and
\* the outer if has no else, at any depth of nesting: of n nested ifs followed
\* by one else only the innermost has an else branch; a second else goes to
\* the next if outwards; braces around the inner if give the else to the outer
\* one; and in no tree does an if with an else have, as its then-branch, an if
\* without one.
DanglingElse ==
    /\ \A d \in IfDocuments :
           code_documents[1] = d =>
               \A k \in 1..Len(parse_errors) : parse_errors[k].name # 1
    /\ (doc = 1 /\ pc = "collect") =>
           /\ \A n \in 1..MaxIfDepth :
                  code_documents[1] = NestedIfDocument(n) =>
                      OnlyStatement(ast_root) = InnermostElse(1, n)
           /\ code_documents[1] = TwoElseDocument =>
                  OnlyStatement(ast_root) =
                      IfStatementNode(OperandA,
                          IfStatementNode(OperandB, ThenStatement,
                                          ElseStatement),
                          ReturnStatementNode(Null))
           /\ code_documents[1] = BracedIfDocument =>
                  OnlyStatement(ast_root) =
                      IfStatementNode(OperandA,
                          BlockStatementNode(
                              <<IfStatementNode(OperandB, ThenStatement,
                                                Null)>>),
                          ElseStatement)
           /\ code_documents[1] = IfWhileIfDocument =>
                  OnlyStatement(ast_root) =
                      IfStatementNode(OperandA,
                          WhileStatementNode(OperandB,
                              IfStatementNode(OperandC, ThenStatement,
                                              ElseStatement)),
                          Null)
           /\ \A s \in Subtrees(ast_root) :
                  (/\ s.kind = IF_STATEMENT
                   /\ s.kids[2].kind = IF_STATEMENT
                   /\ s.kids[2].kids[3] = Null) => s.kids[3] = Null

\* "if (c1) if (c2) x; else 1;" or a deeper nesting has been parsed, and its
\* innermost if holds the else
DanglingElseWitness ==
    /\ doc = 1 /\ pc = "collect"
    /\ \E n \in 2..MaxIfDepth :
           /\ code_documents[1] = NestedIfDocument(n)
           /\ OnlyStatement(ast_root).kids[3] = Null
           /\ OnlyStatement(ast_root).kids[2].kind = IF_STATEMENT

-----------------------------------------------------------------------------
(* clone() on the trees the parser builds                                   *)

\* C24: clone() of a node of any kind, a for-loop with any of its clauses
\* absent, a return without expression, an if without else and a declaration
\* without initializer included, is a tree of new objects, none shared with
\* the original, of the same kinds, operators, type names and children (an
\* absent child stays absent) and with the same canonical hash at every
\* subtree; and a collection leaves the tree it reads as it was, so that
\* collecting from the same root again, or from its clone, gives the same set
\* (a collection that goes through an absent condition gives none).
CloneContract ==
    pc = "collect" =>
        /\ \E original \in {Placed(ast_root, 1)} :
             \E copy \in {cloneAt(original.tree, original.next)} :
                /\ Addresses(copy.tree) \cap Addresses(original.tree) = {}
                /\ Cardinality(Addresses(copy.tree)) =
                       Cardinality(Addresses(original.tree))
                /\ Held(copy.tree) = clone(ast_root)
        /\ clone(ast_root) = ast_root
        /\ \A s \in Subtrees(ast_root) :
               /\ clone(s) = s
               /\ getCanonicalHash(clone(s)) = getCanonicalHash(s)
        /\ \A c \in collectOutcomes(ast_root) :
               ~c.undefined =>
                   /\ collectOutcomes(ast_root) = {c}
                   /\ collectOutcomes(clone(ast_root)) = {c}

\* A function with a for-loop that has a condition only has been parsed and
\* cloned: the clone has the condition and no other clause, lies in objects of
\* its own, and the collection from the root is defined
CloneContractWitness ==
    /\ pc = "collect"
    /\ \E s \in ForStatements(ast_root) :
           /\ s.kids[1] = Null /\ s.kids[2] # Null /\ s.kids[3] = Null
           /\ clone(s).kids[1] = Null /\ clone(s).kids[2] = s.kids[2]
    /\ Cardinality(Addresses(cloneAt(Placed(ast_root, 1).tree,
                                     Placed(ast_root, 1).next).tree)) > 5
    /\ \A c \in collectOutcomes(ast_root) : ~c.undefined

-----------------------------------------------------------------------------
(* For-loops in the hashes of the nodes around them                         *)

\* The hashes of the clauses of a for-loop that are present, in the order
\* initializer, condition, increment, then the hash of the body
ForClauseHashes(s) ==
    LET hs == ChildHashes(s.kids)
        clauses == SelectSeq(<<1, 2, 3>>, LAMBDA k : s.kids[k] # Null)
    IN  [k \in 1..Len(clauses) |-> hs[clauses[k]]] \o <<hs[4]>>

\* The tree parse() returns for a document of one function definition
ProgramOf(d) == ProgramNode(<<parseProgramIteration(d, 0).node>>)
BodyOf(program) == program.kids[1].kids[3]

\* What sets C and E, collected from Snippet C and Snippet E, have in common
ForVersusWhile(C, E) ==
    \E c \in {ProgramOf(SnippetC)}, e \in {ProgramOf(SnippetE)} :
        /\ C \ E = {getCanonicalHash(BodyOf(c)), getCanonicalHash(c.kids[1]),
                    getCanonicalHash(c)}
        /\ E \ C = {getCanonicalHash(BodyOf(e)), getCanonicalHash(e.kids[1]),
                    getCanonicalHash(e)}
        /\ Cardinality(C \cap E) = 12
        /\ Cardinality(C \cup E) = 16
        /\ \A s \in ForStatements(c) : getCanonicalHash(s) \notin C

\* C25: the canonical while replaces a for-loop in what the collection
\* inserts, not in the hashes: the hash of a For node is its kind tag folded
\* with the hashes of its present clauses in the order initializer, condition,
\* increment, body, and the hash of a block around it folds that hash in.  So
\* of the fingerprints of Snippet C and Snippet E, those one side has and the
\* other has not are the hashes of the function's body block and of the
\* function definition and program, on each side; the twelve others are
\* shared, and the similarity is 12/16 = 75.
ForHashedAsWritten ==
    /\ pc = "collect" =>
           /\ \A s \in Subtrees(ast_root) :
                  /\ s.kind = FOR_STATEMENT =>
                         getCanonicalHash(s) =
                             FoldHashes(FOR_STATEMENT, ForClauseHashes(s))
                  /\ s.kind = BLOCK_STATEMENT =>
                         getCanonicalHash(s) =
                             FoldHashes(BLOCK_STATEMENT,
                                 [k \in 1..Len(s.kids) |->
                                     IF s.kids[k].kind = FOR_STATEMENT
                                     THEN FoldHashes(FOR_STATEMENT,
                                              ForClauseHashes(s.kids[k]))
                                     ELSE getCanonicalHash(s.kids[k])])
           /\ tokens \in {SnippetC, SnippetE} => ast_root = ProgramOf(tokens)
    /\ \A a \in 1..Len(document_fingerprints),
          b \in 1..Len(document_fingerprints) :
           (/\ code_documents[document_fingerprints[a].name] = SnippetC
            /\ code_documents[document_fingerprints[b].name] = SnippetE)
               => ForVersusWhile(document_fingerprints[a].fingerprints,
                                 document_fingerprints[b].fingerprints)
    /\ \A k \in 1..Len(comparisons) :
           (/\ code_documents[comparisons[k].doc1_name] = SnippetC
            /\ code_documents[comparisons[k].doc2_name] = SnippetE)
               => RatioEq(comparisons[k].similarity, Ratio(75, 1))

\* main has compared Snippet C with Snippet E and scored them 75
ForHashedAsWrittenWitness ==
    /\ code_documents = MainDocuments
    /\ \E k \in 1..Len(comparisons) :
           /\ comparisons[k].doc1_name = 3 /\ comparisons[k].doc2_name = 5
           /\ RatioEq(comparisons[k].similarity, Ratio(75, 1))
    /\ ForVersusWhile(document_fingerprints[3].fingerprints,
                      document_fingerprints[5].fingerprints)

-----------------------------------------------------------------------------
(* Increment and decrement                                                  *)

\* C26: "++e" and "e++" (and "--e" and "e--") are the same tree, a
\* UnaryExpression with operand e and the operator: the two forms have the
\* same canonical hash and the same fingerprints, whatever the operand.
PrefixAndPostfixAlike ==
    code_documents \in IncrementCorpora =>
        /\ parse_errors = <<>>
        /\ pc = "collect" =>
               /\ OnlyStatement(ast_root).kids[1].kind = UNARY_EXPRESSION
               /\ OnlyStatement(ast_root).kids[1].text = <<tokens[6]>> \/ doc = 2
               /\ OnlyStatement(ast_root).kids[1].text =
                      <<tokens[Len(tokens) - 2]>> \/ doc = 1
               /\ doc = 2 =>
                      /\ ast_root = ProgramOf(code_documents[1])
                      /\ getCanonicalHash(ast_root) =
                             getCanonicalHash(ProgramOf(code_documents[1]))
        /\ Len(document_fingerprints) = 2 =>
               document_fingerprints[1].fingerprints =
                   document_fingerprints[2].fingerprints
        /\ \A k \in 1..Len(comparisons) :
               RatioEq(comparisons[k].similarity, Ratio(100, 1))

\* "++x();" and "x()++;" have been parsed, collected and compared
PrefixAndPostfixAlikeWitness ==
    /\ code_documents =
           << PrefixDocument(<<"IDENTIFIER", "(", ")">>, "++"),
              PostfixDocument(<<"IDENTIFIER", "(", ")">>, "++") >>
    /\ Len(comparisons) = 1
    /\ document_fingerprints[1].fingerprints =
           document_fingerprints[2].fingerprints
    /\ Cardinality(document_fingerprints[1].fingerprints) > 5

-----------------------------------------------------------------------------
(* The Program node's hash                                                  *)

\* A tree without the names of its identifiers and the values of its
\* literals: its structure
RECURSIVE Structure(_)
RECURSIVE StructureOfEach(_)
StructureOfEach(ks) ==
    IF ks = <<>> THEN <<>>
    ELSE <<Structure(Head(ks))>> \o StructureOfEach(Tail(ks))
Structure(n) ==
    IF n = Null THEN Null
    ELSE [kind |-> n.kind,
          text |-> IF n.kind \in {IDENTIFIER, NUMBER_LITERAL, STRING_LITERAL,
                                  CHAR_LITERAL}
                   THEN <<>> ELSE n.text,
          kids |-> StructureOfEach(n.kids)]

\* The structurally distinct subtrees of a tree
Structures(n) == {Structure(s) : s \in Subtrees(n)}

\* C27 (as stated): the hash of an empty Program is 0; the hash of a Program
\* with exactly one declaration d is the hash of d, the Program node adds no
\* fingerprint to those of d, and the fingerprint set has one element less
\* than the tree has structurally distinct subtrees.
ProgramTagLost ==
    pc = "collect" =>
        /\ ast_root.kids = <<>> => getCanonicalHash(ast_root) = 0
        /\ Len(ast_root.kids) = 1 =>
               /\ getCanonicalHash(ast_root) = getCanonicalHash(ast_root.kids[1])
               /\ \A c \in collectOutcomes(ast_root) :
                      ~c.undefined =>
                          Cardinality(c.fps) =
                              Cardinality(Structures(ast_root)) - 1

\* C27 (amended): the hash of an empty Program is 0 and its fingerprint set is
\* {0}; the hash of a Program with exactly one declaration d is the hash of
\* d, and the set collected from the Program is the set collected from d.  In
\* a tree without for-loops the set has at most one element less than the
\* tree has structurally distinct subtrees, and exactly that many if and only
\* if no two structurally distinct subtrees other than the Program have the
\* same canonical hash.
ProgramAddsNoFingerprint ==
    pc = "collect" =>
        /\ ast_root.kids = <<>> =>
               /\ getCanonicalHash(ast_root) = 0
               /\ collectOutcomes(ast_root) = {Collected(FALSE, FALSE, {0})}
        /\ Len(ast_root.kids) = 1 =>
               /\ getCanonicalHash(ast_root) = getCanonicalHash(ast_root.kids[1])
               /\ \A c \in collectOutcomes(ast_root) :
                      ~c.undefined =>
                          /\ collectOutcomes(ast_root.kids[1]) = {c}
                          /\ ForStatements(ast_root) = {} =>
                                 /\ Cardinality(c.fps) <=
                                        Cardinality(Structures(ast_root)) - 1
                                 /\ (Cardinality(c.fps) =
                                        Cardinality(Structures(ast_root)) - 1)
                                    <=>
                                    \A s \in Subtrees(ast_root.kids[1]),
                                       t \in Subtrees(ast_root.kids[1]) :
                                        getCanonicalHash(s) = getCanonicalHash(t)
                                            => Structure(s) = Structure(t)

\* "int f() { x + 1; 1 + x; }" has been parsed: one declaration, ten
\* structurally distinct subtrees, and the collection gives seven fingerprints
ProgramAddsNoFingerprintWitness ==
    /\ pc = "collect" /\ tokens = CommutedTwice
    /\ Len(ast_root.kids) = 1
    /\ Cardinality(Structures(ast_root)) = 10
    /\ \E c \in collectOutcomes(ast_root) :
           /\ Cardinality(c.fps) = 7
           /\ getCanonicalHash(ast_root.kids[1]) \in c.fps

-----------------------------------------------------------------------------
(* The fingerprint sets main records                                        *)

\* C28: every fingerprint set main records is non-empty: the collection from
\* the root a parse returned inserts the hash of the Program node, which for
\* an empty document gives the set {0}; so calculateJaccardSimilarity never
\* returns through its both-empty or its one-empty branch for the sets main
\* compares.
FingerprintSetsNonEmpty ==
    /\ \A k \in 1..Len(document_fingerprints) :
           document_fingerprints[k].fingerprints # {}
    /\ pc = "collect" =>
           \A c \in collectOutcomes(ast_root) :
               ~c.crashed =>
                   /\ c.fps # {}
                   /\ getCanonicalHash(ast_root) \in c.fps
                   /\ tokens = EmptyDocument => c.fps = {0}
    /\ \A k \in 1..Len(comparisons) :
           \A a \in 1..Len(document_fingerprints),
              b \in 1..Len(document_fingerprints) :
               (/\ document_fingerprints[a].name = comparisons[k].doc1_name
                /\ document_fingerprints[b].name = comparisons[k].doc2_name)
                   => /\ document_fingerprints[a].fingerprints # {}
                      /\ document_fingerprints[b].fingerprints # {}
                      /\ comparisons[k].similarity.den =
                             Cardinality(
                                 document_fingerprints[a].fingerprints
                                     \cup document_fingerprints[b].fingerprints)

\* main has recorded {0} for an empty document and compared it with the
\* set of another document
FingerprintSetsNonEmptyWitness ==
    /\ code_documents = EmptyAndDeclarations
    /\ Len(comparisons) = 1
    /\ document_fingerprints[1].fingerprints = {0}
    /\ comparisons[1].similarity.den > 1

-----------------------------------------------------------------------------
(* What the traversal covers                                                *)

\* The nodes of a tree that are neither a for-loop nor the block that is the
\* body of one
RECURSIVE CoveredNodes(_)
CoveredNodes(n) ==
    IF n = Null THEN {}
    ELSE IF n.kind = FOR_STATEMENT
    THEN CoveredNodes(n.kids[1]) \cup CoveredNodes(n.kids[2])
             \cup CoveredNodes(n.kids[3])
             \cup (IF n.kids[4].kind = BLOCK_STATEMENT
                   THEN UNION {CoveredNodes(n.kids[4].kids[k]) :
                                   k \in 1..Len(n.kids[4].kids)}
                   ELSE CoveredNodes(n.kids[4]))
    ELSE {n} \cup UNION {CoveredNodes(n.kids[k]) : k \in 1..Len(n.kids)}

\* The nodes built for a for-loop: the expression statement around an
\* initializer that is no declaration and around the increment, the block of
\* the while and, around a condition, the while
SyntheticNodes(for_node) ==
    (IF for_node.kids[1] = Null \/ for_node.kids[1].kind = VARIABLE_DECLARATION
     THEN {} ELSE {ExpressionStatementNode(for_node.kids[1])})
    \cup (IF for_node.kids[3] = Null THEN {}
          ELSE {ExpressionStatementNode(for_node.kids[3])})
    \cup {BlockStatementNode(canonical_while_body(for_node))}
    \cup (IF for_node.kids[2] = Null THEN {}
          ELSE {WhileStatementNode(for_node.kids[2],
                    BlockStatementNode(canonical_while_body(for_node)))})

\* C29: the collection from any tree the parser returns gives a set that
\* holds the canonical hash of every node of the tree that is neither a
\* for-loop nor the block that is the body of one, and holds nothing but
\* hashes of nodes of the tree and of the expression statements, blocks and
\* whiles built for its for-loops.
TraversalCoverage ==
    pc = "collect" =>
        \A c \in collectOutcomes(ast_root) :
            /\ ~c.crashed
            /\ \A s \in CoveredNodes(ast_root) : getCanonicalHash(s) \in c.fps
            /\ c.fps \subseteq
                   {getCanonicalHash(s) : s \in Subtrees(ast_root)}
                       \cup {getCanonicalHash(s) :
                                s \in UNION {SyntheticNodes(f) :
                                                f \in ForStatements(ast_root)}}

-----------------------------------------------------------------------------
(* combine_hashes in unsigned long long                                     *)

\* An unsigned long long has 64 bits: four limbs of 16 bits, the least
\* significant first.  A number is written here with a fifth limb, which
\* holds what a 64-bit register drops.
Limb == 2 ^ 16
Wide(x) == << x % Limb, x \div Limb, 0, 0, 0 >>

\* The limbs of the number whose limb-wise parts are ds, carries propagated
RECURSIVE Carried(_, _)
Carried(ds, carry) ==
    IF ds = <<>> THEN <<>>
    ELSE <<(Head(ds) + carry) % Limb>>
             \o Carried(Tail(ds), (Head(ds) + carry) \div Limb)
WideTimes(w, m) == Carried([k \in 1..Len(w) |-> w[k] * m], 0)
WidePlus(w, v) == Carried([k \in 1..Len(w) |-> w[k] + v[k]], 0)

\* What the register keeps of a number, and a number modulo AST_HASH_MODULUS
Low64(w) == [w EXCEPT ![5] = 0]
RECURSIVE WideModFrom(_, _, _)
WideModFrom(w, k, r) ==
    IF k = 0 THEN r
    ELSE WideModFrom(w, k - 1,
             (MulMod(MulMod(r, 2 ^ 8), 2 ^ 8) + w[k]) % AST_HASH_MODULUS)
WideMod(w) == WideModFrom(w, Len(w), 0)

\* h1 * AST_HASH_BASE_1 + h2 as a number, and combine_hashes as the C++
\* computes it: the sum in a 64-bit register, then the remainder
ExactSum(h1, h2) ==
    WidePlus(WideTimes(Wide(h1), AST_HASH_BASE_1), Wide(h2))
combine_hashes_64(h1, h2) == WideMod(Low64(ExactSum(h1, h2)))

\* The results of hash_string on the operators and type names of a tree
StringHashes(n) ==
    {hash_string(s.text) :
        s \in {t \in Subtrees(n) :
                  t.kind \in {TYPE, BINARY_EXPRESSION, UNARY_EXPRESSION}}}

\* C30: getCanonicalHash of every node, hash_string of every operator and
\* type name the parser stored, and combine_hashes of any two such values or
\* of the largest values below the modulus, lie in 0 .. AST_HASH_MODULUS - 1;
\* the sum h1 * 31 + h2 of operands below the modulus is below 2^64, so the
\* 64-bit register holds it whole and combine_hashes returns
\* (h1 * 31 + h2) mod AST_HASH_MODULUS.
HashesInRange ==
    pc = "collect" =>
        \E hashes \in {{getCanonicalHash(s) : s \in Subtrees(ast_root)}
                           \cup StringHashes(ast_root)} :
            /\ \A h \in hashes : 0 <= h /\ h < AST_HASH_MODULUS
            /\ \A c \in collectOutcomes(ast_root) :
                   \A h \in c.fps : 0 <= h /\ h < AST_HASH_MODULUS
            /\ \A h1 \in {getCanonicalHash(ast_root), ast_root.kind,
                          AST_HASH_MODULUS - 1},
                  h2 \in hashes \cup {0, AST_HASH_MODULUS - 1} :
                   /\ ExactSum(h1, h2)[5] = 0
                   /\ Low64(ExactSum(h1, h2)) = ExactSum(h1, h2)
                   /\ combine_hashes(h1, h2) = combine_hashes_64(h1, h2)
                   /\ 0 <= combine_hashes(h1, h2)
                   /\ combine_hashes(h1, h2) < AST_HASH_MODULUS

\* Snippet A has been parsed: its hash is above 2^16, and folding it with the
\* largest value below the modulus gives a sum above 2^32 and below 2^64
HashesInRangeWitness ==
    /\ pc = "collect" /\ tokens = SnippetA
    /\ getCanonicalHash(ast_root) > Limb
    /\ ExactSum(getCanonicalHash(ast_root), AST_HASH_MODULUS - 1)[3] > 0
    /\ ExactSum(getCanonicalHash(ast_root), AST_HASH_MODULUS - 1)[5] = 0

-----------------------------------------------------------------------------
(* Types in declarations                                                    *)

\* C18: a declaration with a qualified type,  T::U name;  or
\* T::U name = expr;  parses in a function body and as the initializer of a
\* for-loop as it does at top level: the document parses without an error, to
\* a tree with a VariableDeclaration whose Type is named T::U.
QualifiedLocalDeclarations ==
    (code_documents[1] \in {QualifiedTopLevel} \cup QualifiedInBody) =>
        /\ \A k \in 1..Len(parse_errors) : parse_errors[k].name # 1
        /\ (doc = 1 /\ pc = "collect") =>
               \E declaration \in Subtrees(ast_root) :
                   /\ declaration.kind = VARIABLE_DECLARATION
                   /\ declaration.kids[1] =
                          TypeNode(<<"IDENTIFIER", "::", "IDENTIFIER">>)

-----------------------------------------------------------------------------
(* Specification SpecJaccard: calculateJaccardSimilarity on two sets, called *)
(* with its arguments in both orders.                                       *)

\* Fingerprints are drawn from 1..MaxFingerprint.
MaxFingerprint == 3

InitJaccard ==
    /\ set1 \in SUBSET (1..MaxFingerprint)
    /\ set2 \in SUBSET (1..MaxFingerprint)
    /\ similarity = NotComputed /\ similaritySwapped = NotComputed
    /\ IdleMain /\ IdleCanon /\ IdleLexer

\* double similarity = calculateJaccardSimilarity(set1, set2);
Calculate ==
    /\ similarity = NotComputed
    /\ similarity' = calculateJaccardSimilarity(set1, set2)
    /\ UNCHANGED << set1, set2, similaritySwapped, mainVars, hashVars,
                    lexerVars >>

\* the same call with the arguments exchanged
CalculateSwapped ==
    /\ similaritySwapped = NotComputed
    /\ similaritySwapped' = calculateJaccardSimilarity(set2, set1)
    /\ UNCHANGED << set1, set2, similarity, mainVars, hashVars,
                    lexerVars >>

NextJaccard == Calculate \/ CalculateSwapped

SpecJaccard == InitJaccard /\ [][NextJaccard]_vars

\* C8: calculateJaccardSimilarity(A, B) is 100 when both sets are empty, 0 when
\* exactly one is empty, and otherwise 100 * |A intersect B| / |A union B|; it
\* always lies in [0, 100]; and similarity(S, S) is 100 for every non-empty S.
SimilarityIsJaccard ==
    similarity # NotComputed =>
        /\ (set1 = {} /\ set2 = {}) => RatioEq(similarity, Ratio(100, 1))
        /\ ((set1 = {}) # (set2 = {})) => RatioEq(similarity, Ratio(0, 1))
        /\ (set1 # {} /\ set2 # {}) =>
               RatioEq(similarity, Ratio(100 * Cardinality(set1 \cap set2),
                                         Cardinality(set1 \cup set2)))
        /\ similarity.den > 0
        /\ RatioLeq(Ratio(0, 1), similarity)
        /\ RatioLeq(similarity, Ratio(100, 1))
        /\ (set1 = set2 /\ set1 # {}) => RatioEq(similarity, Ratio(100, 1))

\* A call on two overlapping, different, non-empty sets has returned a score
\* strictly between 0 and 100.
SimilarityIsJaccardWitness ==
    /\ similarity # NotComputed
    /\ set1 # {} /\ set2 # {} /\ set1 # set2 /\ set1 \cap set2 # {}
    /\ ~RatioEq(similarity, Ratio(0, 1))
    /\ ~RatioEq(similarity, Ratio(100, 1))

\* C9: for all fingerprint sets A and B, empty ones included,
\* calculateJaccardSimilarity(A, B) = calculateJaccardSimilarity(B, A).
SimilarityIsSymmetric ==
    (similarity # NotComputed /\ similaritySwapped # NotComputed) =>
        /\ similarity.den > 0 /\ similaritySwapped.den > 0
        /\ RatioEq(similarity, similaritySwapped)

\* Both calls have returned for two sets of different sizes, one inside the
\* other.
SimilarityIsSymmetricWitness ==
    /\ similarity # NotComputed /\ similaritySwapped # NotComputed
    /\ set1 # {} /\ set1 \subseteq set2 /\ set1 # set2

-----------------------------------------------------------------------------
(* Specification SpecCanon: a tree is written, hashed and collected; then   *)
(* the code it stands for is edited (operands exchanged, a comparison       *)
(* turned round, a leaf renamed, a for-loop rewritten by hand as a while)   *)
(* and the edited tree is hashed and collected too.                         *)

\* getCanonicalHash() of every node of a tree, in preorder.  A statement
\* sequence has no node of its own.
RECURSIVE SubtreeHashes(_)
RECURSIVE SubtreeHashesOfEach(_)
SubtreeHashes(n) ==
    IF n = Null THEN <<>>
    ELSE (IF n.kind = NodeList(<<>>).kind THEN <<>> ELSE <<getCanonicalHash(n)>>)
         \o SubtreeHashesOfEach(n.kids)

SubtreeHashesOfEach(ks) ==
    IF ks = <<>> THEN <<>>
    ELSE SubtreeHashes(Head(ks)) \o SubtreeHashesOfEach(Tail(ks))

LeafKinds == {IDENTIFIER, NUMBER_LITERAL, STRING_LITERAL, CHAR_LITERAL}

\* The identifier and literal nodes of a tree, in preorder.
RECURSIVE Leaves(_)
RECURSIVE LeavesOfEach(_)
Leaves(n) ==
    IF n = Null THEN <<>>
    ELSE IF n.kind \in LeafKinds THEN <<n>>
    ELSE LeavesOfEach(n.kids)

LeavesOfEach(ks) ==
    IF ks = <<>> THEN <<>> ELSE Leaves(Head(ks)) \o LeavesOfEach(Tail(ks))

\* The tree with the text of its k-th leaf replaced.
RECURSIVE RenameNth(_, _, _)
RECURSIVE RenameInKids(_, _, _)
RenameNth(n, k, text) ==
    IF n = Null THEN n
    ELSE IF n.kind \in LeafKinds
         THEN IF k = 1 THEN [n EXCEPT !.text = text] ELSE n
    ELSE [n EXCEPT !.kids = RenameInKids(n.kids, k, text)]

RenameInKids(ks, k, text) ==
    IF ks = <<>> THEN <<>>
    ELSE LET c == Len(Leaves(Head(ks)))
         IN  IF k <= c THEN <<RenameNth(Head(ks), k, text)>> \o Tail(ks)
             ELSE <<Head(ks)>> \o RenameInKids(Tail(ks), k - c, text)

\* The names and values a leaf of each kind can be given.
LeafTexts(kind) ==
    CASE kind = IDENTIFIER -> {<<"x">>, <<"y">>}
      [] kind = NUMBER_LITERAL -> {<<"1">>, <<"2">>}
      [] kind = STRING_LITERAL -> {<<"s">>, <<"x">>}
      [] kind = CHAR_LITERAL -> {<<"c">>, <<"y">>}

\* The operand subtrees expressions are written from.
IdX == IdentifierNode(<<"x">>)
IdY == IdentifierNode(<<"y">>)
NumOne == NumberLiteralNode(<<"1">>)
Operands ==
    { IdX, IdY, NumOne,
      StringLiteralNode(<<"s">>),
      CharLiteralNode(<<"c">>),
      UnaryExpressionNode(IdX, "-"),
      BinaryExpressionNode(IdX, NumOne, "+"),
      BinaryExpressionNode(NumOne, IdY, "<"),
      FunctionCallNode(IdX, <<NumOne>>) }

\* Every operator a BinaryExpressionNode can carry: those the parser builds
\* one with, and the three bitwise ones of commutative_operators.
BinaryOperators ==
    (UNION {LevelOperators[k] : k \in 1..Len(LevelOperators)})
        \cup {"=", "+=", "-=", "*=", "/="} \cup {"&", "|", "^"}

\* The comparison that says the same with the operands exchanged.
Flipped(o) ==
    CASE o = "<" -> ">" [] o = ">" -> "<" [] o = "<=" -> ">=" [] o = ">=" -> "<="

\* For-loops: a declaration as initializer, a condition, an increment and a
\* block of up to MaxBody statements.
MaxBody == 1

IntType == TypeNode(<<"int">>)
ForInitializers ==
    { VariableDeclarationNode(IntType, IdX, NumOne),
      VariableDeclarationNode(IntType, IdY, Null) }
ForConditions ==
    { BinaryExpressionNode(IdX, NumOne, "<"),
      BinaryExpressionNode(IdX, IdY, "!=") }
ForIncrements ==
    { UnaryExpressionNode(IdX, "++"),
      BinaryExpressionNode(IdX, NumOne, "+=") }
BodyStatements ==
    { ExpressionStatementNode(BinaryExpressionNode(IdY, IdX, "+=")),
      ReturnStatementNode(Null),
      IfStatementNode(IdX, BlockStatementNode(<<>>), Null),
      ForStatementNode(VariableDeclarationNode(IntType, IdY, NumOne),
                       BinaryExpressionNode(IdY, NumOne, ">"),
                       UnaryExpressionNode(IdY, "--"),
                       ExpressionStatementNode(FunctionCallNode(IdX, <<IdY>>))) }
ForBodies == UNION {[1..n -> BodyStatements] : n \in 0..MaxBody}

InitCanon ==
    /\ node = Null /\ mirror = Null /\ edit = <<>>
    /\ nodeHashes = <<>> /\ mirrorHashes = <<>>
    /\ nodePrints = Collected(FALSE, FALSE, {}) /\ mirrorPrints = Collected(FALSE, FALSE, {})
    /\ IdleMain /\ IdleJaccard /\ IdleLexer

\* The tree n is written, hashed and collected.
Write(n) ==
    /\ edit = <<>>
    /\ \E c \in collectOutcomes(n) : nodePrints' = c /\ mirrorPrints' = c
    /\ node' = n /\ mirror' = n
    /\ nodeHashes' = SubtreeHashes(n) /\ mirrorHashes' = nodeHashes'
    /\ edit' = <<"write">>
    /\ UNCHANGED << mainVars, jaccardVars, lexerVars >>

\* The edited tree m is hashed and collected.
Edit(label, m) ==
    /\ edit = <<"write">>
    /\ mirror' = m
    /\ mirrorHashes' = SubtreeHashes(m)
    /\ mirrorPrints' \in collectOutcomes(m)
    /\ edit' = <<"write", label>>
    /\ UNCHANGED << node, nodeHashes, nodePrints, mainVars, jaccardVars, lexerVars >>

\* "l o r"
WriteExpression ==
    \E l \in Operands, r \in Operands, o \in BinaryOperators :
        Write(BinaryExpressionNode(l, r, o))

\* "for (init; cond; incr) { stmts }"
WriteForLoop ==
    \E init \in ForInitializers, cond \in ForConditions,
       incr \in ForIncrements, stmts \in ForBodies :
        Write(ForStatementNode(init, cond, incr, BlockStatementNode(stmts)))

\* "l o r" becomes "r o l"
SwapOperands ==
    /\ node.kind = BINARY_EXPRESSION
    /\ Edit("swap", BinaryExpressionNode(node.kids[2], node.kids[1], node.text[1]))

\* "l < r" becomes "r > l", and so on
FlipComparison ==
    /\ node.kind = BINARY_EXPRESSION
    /\ node.text[1] \in {"<", ">", "<=", ">="}
    /\ Edit("flip", BinaryExpressionNode(node.kids[2], node.kids[1],
                                         Flipped(node.text[1])))

\* an identifier is renamed, or a literal's value changed
RenameLeaf ==
    /\ node # Null
    /\ \E leaves \in {Leaves(node)} :
         \E k \in 1..Len(leaves) :
            \E text \in LeafTexts(leaves[k].kind) \ {leaves[k].text} :
                Edit("rename", RenameNth(node, k, text))

\* "for (init; cond; incr) { stmts }" becomes
\* "init; while (cond) { stmts incr; }"
RewriteAsWhile ==
    /\ node.kind = FOR_STATEMENT
    /\ node.kids[1].kind = VARIABLE_DECLARATION
    /\ node.kids[2] # Null /\ node.kids[3] # Null
    /\ node.kids[4].kind = BLOCK_STATEMENT
    /\ Edit("while",
            NodeList(<< node.kids[1],
                        WhileStatementNode(node.kids[2],
                            BlockStatementNode(
                                Append(node.kids[4].kids,
                                       ExpressionStatementNode(node.kids[3])))) >>))

NextCanon ==
    \/ WriteExpression
    \/ WriteForLoop
    \/ SwapOperands
    \/ FlipComparison
    \/ RenameLeaf
    \/ RewriteAsWhile

SpecCanon == InitCanon /\ [][NextCanon]_vars

Edited(label) == edit = <<"write", label>>

\* C1: for all subtrees A and B, those with equal canonical hashes included,
\* "A < B" and "B > A" have the same canonical hash, and so have "A <= B" and
\* "B >= A" (and the same read from right to left).
RelationalFlipInvariant ==
    Edited("flip") => mirrorHashes[1] = nodeHashes[1]

\* C2: for every operator among + * == != && || & | ^ and all subtrees A and B,
\* "A op B" and "B op A" have the same canonical hash.
CommutativityInvariant ==
    (Edited("swap") /\
     node.text[1] \in {"+", "*", "==", "!=", "&&", "||", "&", "|", "^"})
        => mirrorHashes[1] = nodeHashes[1]

\* The operands of a sum whose hashes differ have been exchanged, and the hash
\* is the same.
CommutativityInvariantWitness ==
    /\ Edited("swap") /\ node.text[1] = "+"
    /\ getCanonicalHash(node.kids[1]) # getCanonicalHash(node.kids[2])
    /\ mirror # node
    /\ mirrorHashes[1] = nodeHashes[1]

\* C4: for a for-loop with a declaration as initializer, a condition, an
\* increment and a block body, the fingerprints collected from the For node
\* are those collected from the statements  init; while (cond) { body incr; }.
ForWhileEquivalence ==
    Edited("while") =>
        /\ ~nodePrints.crashed /\ ~mirrorPrints.crashed
        /\ nodePrints.fps = mirrorPrints.fps

\* A for-loop whose body holds a nested for-loop has been rewritten as a while,
\* and both collections gave the same set of more than ten fingerprints.
ForWhileEquivalenceWitness ==
    /\ Edited("while")
    /\ Len(node.kids[4].kids) >= 1
    /\ node.kids[4].kids[1].kind = FOR_STATEMENT
    /\ nodePrints.fps = mirrorPrints.fps
    /\ Cardinality(nodePrints.fps) > 10

\* C5: replacing the name of an Identifier node or the value of a Number, String
\* or Char literal node, its kind kept, changes the canonical hash of no
\* subtree, and so changes nothing in the collected fingerprint set.
LeafInvariance ==
    Edited("rename") =>
        /\ mirrorHashes = nodeHashes
        /\ mirrorPrints = nodePrints

\* A string literal inside an expression has been given another value, and an
\* identifier inside a for-loop has been renamed.
LeafInvarianceWitness ==
    /\ Edited("rename") /\ mirror # node
    /\ node.kind = FOR_STATEMENT
    /\ node.kids[2] # mirror.kids[2]
    /\ Len(mirrorHashes) > 10
    /\ mirrorHashes = nodeHashes

\* Hashes at and next to the ends of the range of getCanonicalHash, and the
\* kind tags of the leaves
BoundaryHashes ==
    {0, 1, IDENTIFIER, NUMBER_LITERAL, AST_HASH_BASE_1, AST_HASH_BASE_1 + 1,
     AST_HASH_MODULUS - AST_HASH_BASE_1, AST_HASH_MODULUS - 2,
     AST_HASH_MODULUS - 1}
OrderedOperators ==
    {"-", "/", "%", "<<", ">>", "=", "+=", "-=", "*=", "/="}

\* C23: for every operator among - / % << >> = += -= *= /= and all subtrees A
\* and B whose canonical hashes differ, "A op B" and "B op A" have different
\* canonical hashes; and so have "A < B" and "B < A" (likewise > <= >=)
\* whenever the hashes of A and B differ.
OrderSensitivity ==
    /\ (/\ Edited("swap")
        /\ node.text[1] \in
               OrderedOperators \cup relational_operators_for_canonicalization
        /\ getCanonicalHash(node.kids[1]) # getCanonicalHash(node.kids[2]))
           => mirrorHashes[1] # nodeHashes[1]
    /\ (/\ Edited("swap")
        /\ node.text[1] \in
               OrderedOperators \cup relational_operators_for_canonicalization)
           => \A a \in BoundaryHashes, b \in BoundaryHashes :
                  a # b => BinaryCanonicalHash(node.text[1], a, b)
                               # BinaryCanonicalHash(node.text[1], b, a)

\* The operands of a difference whose hashes differ have been exchanged, and
\* the hash has changed.
OrderSensitivityWitness ==
    /\ Edited("swap") /\ node.text[1] = "-"
    /\ getCanonicalHash(node.kids[1]) # getCanonicalHash(node.kids[2])
    /\ mirrorHashes[1] # nodeHashes[1]


-----------------------------------------------------------------------------
(* Specification SpecLexer: Lexer::tokenize on a source, one iteration of   *)
(* its loop per step.                                                       *)

\* Sources: every sequence of up to MaxSource characters of LexerAlphabet,
\* every multi-character operator alone and between two operands, and
\* some texts.
MaxSource == 3

LexerAlphabet == {"<", ">", "=", "a", "1", " "}

OperatorSources ==
    multi_char_operators \cup
        {<<"a">> \o op \o <<"1">> : op \in multi_char_operators}

\* void print_hello() {
\*     std::cout << "Hello, World!" << std::endl;
\* }
HelloWorldText ==
    << "v", "o", "i", "d", " ", "p", "r", "i", "n", "t", "_", "h", "e", "l",
       "l", "o", "(", ")", " ", "{", "\n", " ", " ", " ", " ", "s", "t",
       "d", ":", ":", "c", "o", "u", "t", " ", "<", "<", " ", "\"", "H",
       "e", "l", "l", "o", ",", " ", "W", "o", "r", "l", "d", "!", "\"",
       " ", "<", "<", " ", "s", "t", "d", ":", ":", "e", "n", "d", "l", ";",
       "\n", "}" >>

\* "// c", newline, "x /* y */ 1.5 /* z"
CommentedText ==
    << "/", "/", " ", "c", "\n", "x", " ", "/", "*", " ", "y", " ", "*",
       "/", " ", "1", ".", "5", " ", "/", "*", " ", "z" >>

\* "#include <a>", newline, "char c = '\''; s = "a\"b" @ 'x"
DirectiveText ==
    << "#", "i", "n", "c", "l", "u", "d", "e", " ", "<", "a", ">", "\n",
       "c", "h", "a", "r", " ", "c", " ", "=", " ", "'", "\\", "'", "'",
       ";", " ", "s", " ", "=", " ", "\"", "a", "\\", "\"", "b", "\"", " ",
       "@", " ", "'", "x" >>

\* "a <<= 2;" and "b >>= 1;"
ShiftAssignTexts ==
    { << "a", " ", "<", "<", "=", " ", "2", ";" >>,
      << "b", " ", ">", ">", "=", " ", "1", ";" >> }

\* "double d; float f; long n; int i;"
TypeKeywordText ==
    << "d", "o", "u", "b", "l", "e", " ", "d", ";", " ", "f", "l", "o", "a",
       "t", " ", "f", ";", " ", "l", "o", "n", "g", " ", "n", ";", " ", "i",
       "n", "t", " ", "i", ";" >>

Sources ==
    UNION {[1..k -> LexerAlphabet] : k \in 0..MaxSource}
        \cup OperatorSources \cup ShiftAssignTexts
        \cup {HelloWorldText, CommentedText, DirectiveText, TypeKeywordText}

InitLexer ==
    /\ source \in Sources
    /\ lexer_pos = 0
    /\ lexer_tokens = <<>>
    /\ lexer_pc = "tokenize"
    /\ IdleMain /\ IdleCanon /\ IdleJaccard

\* An iteration that ends at  if (current_pos >= source.length()) break;
\* after skipWhitespace; tokenize returns.
TokenizeBreak ==
    /\ lexer_pc = "tokenize"
    /\ lexer_pos < Len(source)
    /\ skipWhitespace(source, lexer_pos) >= Len(source)
    /\ lexer_pos' = skipWhitespace(source, lexer_pos)
    /\ lexer_pc' = "returned"
    /\ UNCHANGED << source, lexer_tokens, mainVars, hashVars, jaccardVars >>

\* An iteration that ends at a continue: a comment, a preprocessor line or a
\* character that starts no token is passed over.
TokenizeContinue ==
    /\ lexer_pc = "tokenize"
    /\ lexer_pos < Len(source)
    /\ \E start \in {skipWhitespace(source, lexer_pos)} :
           /\ start < Len(source)
           /\ IF handleComments(source, start) # start
              THEN lexer_pos' = handleComments(source, start)
              ELSE IF handlePreprocessor(source, start) # start
              THEN lexer_pos' = handlePreprocessor(source, start)
              ELSE /\ readToken(source, start).value = NoToken
                   /\ lexer_pos' = readToken(source, start).pos
    /\ UNCHANGED << source, lexer_tokens, lexer_pc, mainVars, hashVars,
                    jaccardVars >>

\* An iteration that reaches  tokens.push_back(token_value)
TokenizePush ==
    /\ lexer_pc = "tokenize"
    /\ lexer_pos < Len(source)
    /\ \E start \in {skipWhitespace(source, lexer_pos)} :
           /\ start < Len(source)
           /\ handleComments(source, start) = start
           /\ handlePreprocessor(source, start) = start
           /\ \E read \in {readToken(source, start)} :
                  /\ read.value # NoToken
                  /\ lexer_tokens' = Append(lexer_tokens, read.value)
                  /\ lexer_pos' = read.pos
    /\ UNCHANGED << source, lexer_pc, mainVars, hashVars, jaccardVars >>

\* The loop condition fails: return tokens
TokenizeReturn ==
    /\ lexer_pc = "tokenize"
    /\ lexer_pos >= Len(source)
    /\ lexer_pc' = "returned"
    /\ UNCHANGED << source, lexer_pos, lexer_tokens, mainVars, hashVars,
                    jaccardVars >>

NextLexer ==
    \/ TokenizeBreak
    \/ TokenizeContinue
    \/ TokenizePush
    \/ TokenizeReturn

SpecLexer == InitLexer /\ [][NextLexer]_vars

\* C15: wherever tokenize reads an operator, the token it pushes is the
\* longest entry of multi_char_operators that the source holds at that
\* position: no entry that matches there is longer than what is consumed,
\* "<<=" and ">>=" included.
LongestOperatorMatch ==
    [][(lexer_pc = "tokenize" /\ Len(lexer_tokens') = Len(lexer_tokens) + 1) =>
        \A start \in {skipWhitespace(source, lexer_pos)} :
            isSingleCharOperatorDelimiter(source[start + 1]) =>
                \A op \in multi_char_operators :
                    (/\ start + Len(op) <= Len(source)
                     /\ SubSeq(source, start + 1, start + Len(op)) = op)
                        => lexer_pos' - start >= Len(op)
      ]_vars

\* C19: every keyword and every identifier token that tokenize pushes is
\* accepted by parseType as the base name of a type (const, which parseType
\* reads as a prefix, aside): double, float, char and long like int, void and
\* bool.
BaseNamesAccepted ==
    \A k \in 1..Len(lexer_tokens) :
        (lexer_tokens[k] = "IDENTIFIER" \/
         lexer_tokens[k] \in keywords \ {"const"}) =>
            parseType(<<lexer_tokens[k]>>, 0).ok

====
